---- MODULE Spec2Model ----
(***************************************************************************)
(* A model of the region POST handler of pulse-lens-emotions-map: the      *)
(* region-keyed response cache, region resolution, the source fan-out,     *)
(* the region filter, batch emotion classification, the map formatter and  *)
(* the top-posts selection.  JavaScript strings are TLA+ strings, read     *)
(* character by character with SubSeq.  Times are milliseconds.            *)
(* Confidences are hundredths (0.5 is 50, 1.0 is 100).                     *)
(***************************************************************************)
EXTENDS Integers, Sequences, FiniteSets, TLC

(***************************************************************************)
(* Bounds of the model.                                                    *)
(***************************************************************************)
\* The clock advances in steps of TickMs, at most MaxTicks times.
MaxTicks == 2
TickMs == 15000
\* Number of requests that arrive in one behaviour.
MaxArrivals == 2
\* Lists of classified posts: a run of MaxFiller posts and up to MaxFree more.
MaxFiller == 9
MaxFree == 3
\* Posts in one call of formatMapData.
MaxMapPosts == 2
\* Posts in one call of filterByRegion.
MaxFilterPosts == 2
\* Events in one reply of the GDELT upstream.
MaxEvents == 3
\* WebSocket objects the firehose creates in one run.
MaxSockets == 3
\* The firehose's clock: MaxClockSteps steps of ClockStepMs milliseconds.
MaxClockSteps == 2
ClockStepMs == 5000
\* The buffer's clock: MaxBufferSteps steps of BufferStepMs milliseconds.
MaxBufferSteps == 2
BufferStepMs == 1800000
\* The handler invocations that may be in flight at once.
Requests == {"r1", "r2"}

(***************************************************************************)
(* Program constants.                                                      *)
(***************************************************************************)
\* `if (age < 30000)`: the freshness window of a cache entry.
CACHE_FRESH_MS == 30000
\* `.slice(0, 10)` and `.substring(0, 280)` of the top posts.
TOP_POSTS == 10
TOP_TEXT_LEN == 280
\* `text.trim().length < 3` in classifyEmotion.
MIN_TEXT_LEN == 3
\* `normalizedMainRegion.length >= 3` in filterByRegion's fallback.
MIN_REGION_LEN == 3
\* `key.length <= 3`: keywords matched with word boundaries.
SHORT_KEY_LEN == 3
\* confidence 1.0 (short text) and 0.5 (no credential, any failure).
CONF_ONE == 100
CONF_HALF == 50
\* The delay of the reconnect timer (blueskyFirehose.ts line 654).
RECONNECT_DELAY_MS == 5000
\* The sample posts the chat prompt takes (chat/route.ts line 81).
CHAT_TWEETS == 10
\* PostBuffer.maxSize and PostBuffer.maxAge (blueskyFirehose.ts lines 33-34).
maxSize == 1000
maxAge == 3600000

(***************************************************************************)
(* Strings.                                                                *)
(***************************************************************************)
Ch(s, i) == SubSeq(s, i, i)

Min(a, b) == IF a < b THEN a ELSE b

Max(a, b) == IF a > b THEN a ELSE b

UpperLetters == "ABCDEFGHIJKLMNOPQRSTUVWXYZ"

LowerLetters == "abcdefghijklmnopqrstuvwxyz"

Digits == "0123456789"

\* The characters of a string, as a set.
CharSet(alphabet) == { Ch(alphabet, i) : i \in 1..Len(alphabet) }

UpperSet == CharSet(UpperLetters)

LowerSet == CharSet(LowerLetters)

DigitSet == CharSet(Digits)

\* The lower-case letter of each upper-case letter.
LowerOf ==
  [c \in UpperSet |->
     Ch(LowerLetters, CHOOSE i \in 1..Len(UpperLetters) : Ch(UpperLetters, i) = c)]

IsLetter(c) == c \in UpperSet \/ c \in LowerSet

\* \s of a regular expression and the characters String.trim removes.
IsSpace(c) == c \in {" ", "\t", "\n"}

\* \w of a regular expression.
IsWordChar(c) == IsLetter(c) \/ c \in DigitSet \/ c = "_"

LowerCh(c) == IF c \in UpperSet THEN LowerOf[c] ELSE c

\* String.prototype.toLowerCase
RECURSIVE ToLowerCase(_)
ToLowerCase(s) ==
  IF Len(s) = 0 THEN "" ELSE LowerCh(Ch(s, 1)) \o ToLowerCase(SubSeq(s, 2, Len(s)))

RECURSIVE TrimStart(_)
TrimStart(s) ==
  IF Len(s) > 0 /\ IsSpace(Ch(s, 1)) THEN TrimStart(SubSeq(s, 2, Len(s))) ELSE s

RECURSIVE TrimEnd(_)
TrimEnd(s) ==
  IF Len(s) > 0 /\ IsSpace(Ch(s, Len(s))) THEN TrimEnd(SubSeq(s, 1, Len(s) - 1)) ELSE s

\* String.prototype.trim
Trim(s) == TrimEnd(TrimStart(s))

\* s.substring(i - 1, i - 1 + Len(sub)) = sub
MatchAt(s, sub, i) ==
  /\ i >= 1
  /\ i + Len(sub) - 1 <= Len(s)
  /\ SubSeq(s, i, i + Len(sub) - 1) = sub

\* String.prototype.includes
Includes(s, sub) == \E i \in 1..(Len(s) + 1) : MatchAt(s, sub, i)

\* String.prototype.startsWith
StartsWith(s, sub) == MatchAt(s, sub, 1)

EndsWith(s, sub) == MatchAt(s, sub, Len(s) - Len(sub) + 1)

\* s.substring(0, n)
Substring0(s, n) == SubSeq(s, 1, Min(n, Len(s)))

\* s.split(',')[0]
BeforeComma(s) ==
  IF \E i \in 1..Len(s) : Ch(s, i) = ","
  THEN SubSeq(s, 1, (CHOOSE i \in 1..Len(s) :
                       /\ Ch(s, i) = ","
                       /\ \A j \in 1..(i - 1) : Ch(s, j) # ",") - 1)
  ELSE s

\* s.replace(/,?\s*TAIL$/, '') where TAIL is the last n characters of s: the
\* leftmost match takes the whole run of white space before the tail and a
\* comma before that run.
StripTail(s, n) ==
  LET t == Len(s) - n
      ws == CHOOSE k \in 0..t :
              /\ \A j \in (t - k + 1)..t : IsSpace(Ch(s, j))
              /\ (k < t => ~IsSpace(Ch(s, t - k)))
      c == IF ws < t /\ Ch(s, t - ws) = "," THEN 1 ELSE 0
  IN SubSeq(s, 1, t - ws - c)

\* s.replace(/,?\s*(united states|usa|us)$/i, '')
StripCountrySuffix(s) ==
  LET l == ToLowerCase(s)
  IN IF EndsWith(l, "united states") THEN StripTail(s, Len("united states"))
     ELSE IF EndsWith(l, "usa") THEN StripTail(s, Len("usa"))
     ELSE IF EndsWith(l, "us") THEN StripTail(s, Len("us"))
     ELSE s

\* s.replace(/,?\s*[a-z]{2}$/i, '')
StripStateCode(s) ==
  IF Len(s) >= 2 /\ IsLetter(Ch(s, Len(s))) /\ IsLetter(Ch(s, Len(s) - 1))
  THEN StripTail(s, 2)
  ELSE s

\* new RegExp(`\\b${key}\\b`, 'i').test(text), for a text and a key that
\* normalize has already lowercased.  A boundary lies between a word
\* character and a non-word character or an end of the text.
WordAt(s, i) == i >= 1 /\ i <= Len(s) /\ IsWordChar(Ch(s, i))

Boundary(s, i) == WordAt(s, i - 1) # WordAt(s, i)

WordBoundaryTest(text, key) ==
  \E i \in 1..(Len(text) + 1) :
    /\ MatchAt(text, key, i)
    /\ Boundary(text, i)
    /\ Boundary(text, i + Len(key))

(***************************************************************************)
(* The region filter (src/utils/regionFilter.ts).                          *)
(***************************************************************************)
\* The keys of RegionKeywords in insertion order (the order Object.entries
\* visits them), without "default".
RegionKeys ==
  << "new york", "los angeles", "miami", "chicago", "houston", "london",
     "paris", "tokyo", "toronto", "brazil", "haiti", "beirut", "ohio" >>

\* RegionKeywords.  "s~o paulo" stands for the source's keyword with a-tilde,
\* a character outside [a-z0-9# ] like "~".
RegionKeywords(key) ==
  CASE key = "new york" ->
         << "new york", "newyork", "manhattan", "brooklyn", "queens", "bronx",
            "staten island", "harlem", "times square", "empire state",
            "central park", "#nyc", "#newyork", "#manhattan", "#brooklyn" >>
    [] key = "los angeles" ->
         << "los angeles", "losangeles", "hollywood", "santa monica",
            "venice beach", "beverly hills", "malibu", "downtown la", "dtla",
            "la county", "#la", "#losangeles", "#hollywood" >>
    [] key = "miami" ->
         << "miami", "miami beach", "south beach", "dade county", "miami dade",
            "#miami", "#miamibeach" >>
    [] key = "chicago" ->
         << "chicago", "chitown", "windy city", "loop", "magnificent mile",
            "#chicago", "#chitown" >>
    [] key = "houston" ->
         << "houston", "htown", "space city", "bayou city", "#houston", "#htown" >>
    [] key = "london" ->
         << "london", "greater london", "westminster", "camden", "greenwich",
            "#london", "#uk" >>
    [] key = "paris" ->
         << "paris", "paris france", "eiffel tower", "champs elysees", "#paris" >>
    [] key = "tokyo" ->
         << "tokyo", "tokyo japan", "shibuya", "shinjuku", "harajuku",
            "#tokyo", "#japan" >>
    [] key = "toronto" ->
         << "toronto", "toronto ontario", "downtown toronto", "yonge street",
            "#toronto", "#canada" >>
    [] key = "brazil" ->
         << "brazil", "brasil", "rio de janeiro", "s~o paulo", "sao paulo",
            "rio", "brazilian", "#brazil", "#brasil", "#rio" >>
    [] key = "haiti" ->
         << "haiti", "haitian", "port-au-prince", "port au prince", "#haiti" >>
    [] key = "beirut" ->
         << "beirut", "beyrouth", "beirut lebanon", "lebanon", "#beirut",
            "#lebanon" >>
    [] key = "ohio" ->
         << "ohio", "oh", "columbus ohio", "cleveland", "cincinnati", "#ohio" >>
    [] OTHER -> << >>

\* The characters normalize keeps: [a-z0-9# ].
KeptByNormalize(c) ==
  c \in LowerSet \/ c \in DigitSet \/ c = "#" \/ c = " "

RECURSIVE KeepNormal(_)
KeepNormal(s) ==
  IF Len(s) = 0 THEN ""
  ELSE (IF KeptByNormalize(Ch(s, 1)) THEN Ch(s, 1) ELSE "")
         \o KeepNormal(SubSeq(s, 2, Len(s)))

\* str.toLowerCase().replace(/[^a-z0-9# ]/g, "")
normalize(str) == KeepNormal(ToLowerCase(str))

\* The first key of RegionKeywords that occurs in `lower`, 0 if none does.
FirstKeyIn(lower) ==
  IF \E i \in 1..Len(RegionKeys) : Includes(lower, RegionKeys[i])
  THEN CHOOSE i \in 1..Len(RegionKeys) :
         /\ Includes(lower, RegionKeys[i])
         /\ \A j \in 1..(i - 1) : ~Includes(lower, RegionKeys[j])
  ELSE 0

extractMainRegion(fullRegion) ==
  LET lower == ToLowerCase(fullRegion)
      k == FirstKeyIn(lower)
  IN IF k # 0 THEN RegionKeys[k]
     ELSE Trim(BeforeComma(StripStateCode(StripCountrySuffix(lower))))

\* One keyword of a curated list against a normalized text.
KeywordMatches(text, key) ==
  IF StartsWith(key, "#") THEN Includes(text, key)
  ELSE IF Len(key) <= SHORT_KEY_LEN THEN WordBoundaryTest(text, key)
  ELSE IF Includes(key, " ") THEN Includes(text, key)
  ELSE WordBoundaryTest(text, key)

\* Array.prototype.filter
RECURSIVE SelectSeq2(_, _)
SelectSeq2(s, keep) ==
  IF s = << >> THEN << >>
  ELSE (IF keep[1] THEN << Head(s) >> ELSE << >>)
         \o SelectSeq2(Tail(s), Tail(keep))

\* The fallback without the test of the token's length.
RegionKeepsAnyLength(postText, region) ==
  LET mainRegion == extractMainRegion(region)
      regionKeys == RegionKeywords(mainRegion)
      text == normalize(postText)
  IN IF Len(regionKeys) = 0
     THEN WordBoundaryTest(text, normalize(extractMainRegion(region)))
     ELSE \E i \in 1..Len(regionKeys) :
            KeywordMatches(text, normalize(regionKeys[i]))

\* Whether filterByRegion keeps a post with this text for `region`.
RegionKeeps(postText, region) ==
  LET mainRegion == extractMainRegion(region)
      regionKeys == RegionKeywords(mainRegion)
      text == normalize(postText)
  IN IF Len(regionKeys) = 0
     THEN LET normalizedMainRegion == normalize(extractMainRegion(region))
          IN /\ Len(normalizedMainRegion) >= MIN_REGION_LEN
             /\ WordBoundaryTest(text, normalizedMainRegion)
     ELSE \E i \in 1..Len(regionKeys) :
            KeywordMatches(text, normalize(regionKeys[i]))

filterByRegion(posts, region) ==
  SelectSeq2(posts, [i \in 1..Len(posts) |-> RegionKeeps(posts[i].text, region)])

(***************************************************************************)
(* The country codes (utils/countryMap.ts) and the handler's lookup.       *)
(***************************************************************************)
\* countryCodeMap as Object.entries visits it: << name, code >> in insertion
\* order, a repeated key at the place of its first occurrence.
countryCodeMap ==
  << << "united states", "us" >>, << "usa", "us" >>, << "us", "us" >>,
     << "america", "us" >>, << "new york", "us" >>,
     << "los angeles", "us" >>, << "chicago", "us" >>, << "houston", "us" >>,
     << "miami", "us" >>, << "california", "us" >>, << "texas", "us" >>,
     << "florida", "us" >>, << "canada", "ca" >>,
     << "united kingdom", "gb" >>, << "uk", "gb" >>, << "england", "gb" >>,
     << "london", "gb" >>, << "france", "fr" >>, << "paris", "fr" >>,
     << "germany", "de" >>, << "japan", "jp" >>, << "tokyo", "jp" >>,
     << "brazil", "br" >>, << "brasil", "br" >>, << "india", "in" >>,
     << "nigeria", "ng" >>, << "south africa", "za" >>, << "mexico", "mx" >>,
     << "haiti", "ht" >>, << "netherlands", "nl" >>, << "holland", "nl" >>,
     << "australia", "as" >>, << "austria", "au" >>, << "china", "ch" >>,
     << "russia", "rs" >>, << "spain", "sp" >>, << "italy", "it" >>,
     << "sweden", "sw" >>, << "norway", "no" >>, << "denmark", "da" >>,
     << "finland", "fi" >>, << "ireland", "ei" >>, << "new zealand", "nz" >>,
     << "argentina", "ar" >>, << "colombia", "co" >>, << "egypt", "eg" >>,
     << "saudi arabia", "sa" >>, << "united arab emirates", "ae" >>,
     << "turkey", "tu" >>, << "indonesia", "id" >>,
     << "philippines", "rp" >>, << "thailand", "th" >>,
     << "vietnam", "vm" >>, << "south korea", "ks" >>,
     << "pakistan", "pk" >>, << "bangladesh", "bg" >>, << "iran", "ir" >>,
     << "israel", "is" >>, << "greece", "gr" >>, << "poland", "pl" >>,
     << "switzerland", "sz" >>, << "belgium", "be" >>, << "lebanon", "le" >>,
     << "default", "us" >> >>

\* countryCodeMap[name], "" standing for undefined.
CodeOf(name) ==
  IF \E i \in 1..Len(countryCodeMap) : countryCodeMap[i][1] = name
  THEN countryCodeMap[CHOOSE i \in 1..Len(countryCodeMap) :
                        countryCodeMap[i][1] = name][2]
  ELSE ""

\* getCountryCode
getCountryCode(countryName) ==
  LET normalized == Trim(ToLowerCase(countryName))
  IN IF CodeOf(normalized) # "" THEN CodeOf(normalized) ELSE CodeOf("default")

\* The names of the table, "default" aside, that occur in `lower`, by index.
NamesIn(lower) ==
  { i \in 1..Len(countryCodeMap) :
      /\ countryCodeMap[i][1] # "default"
      /\ Includes(lower, countryCodeMap[i][1]) }

\* extractCountryFromRegion (part_003 lines 10-21): the code of the first
\* name of the table that occurs in the lowercased region.
extractCountryFromRegion(region) ==
  LET lower == ToLowerCase(region)
      hits == NamesIn(lower)
  IN IF hits # {}
     THEN countryCodeMap[CHOOSE i \in hits : \A j \in hits : i <= j][2]
     ELSE getCountryCode(region)

(***************************************************************************)
(* The emotion classifier (src/unnamed/part_000, utils/classifyEmotion).   *)
(***************************************************************************)
Emotions == << "anger", "sadness", "fear", "joy", "hope", "neutral" >>

ValidEmotions == { Emotions[i] : i \in 1..Len(Emotions) }

\* An emotion field the model's JSON leaves out.
Missing == "<missing>"

\* A number that may be absent (undefined, null) or NaN is a sequence: << >>
\* when it is, << n >> when it is the number n.
Absent == << >>

Num(n) == << n >>

\* NaN as a confidence: what Math.max(0, Math.min(1, x)) is for an x that is
\* no number.  It stands outside the hundredths and is never compared as one.
NaN == -1

\* What the model call can come to: fetch rejects ("throws"), a non-2xx
\* response ("notOk"), a 2xx response without content ("noContent"), content
\* that is no JSON ("badJson"), content that parses to {emotion, confidence}
\* ("json"), either field possibly missing (undefined or null), or content
\* that parses to an {emotion, confidence} whose confidence is a text that
\* is no number, such as "high" ("jsonText").
Reply(kind, emotion, confidence) ==
  [kind |-> kind, emotion |-> emotion, confidence |-> confidence]

FailedReplies ==
  { Reply(k, Missing, Absent) : k \in {"throws", "notOk", "noContent", "badJson"} }

EmotionResult(emotion, confidence) == [emotion |-> emotion, confidence |-> confidence]

\* A text that is null or undefined.
NullText == "<null>"

\* The test on the text without the trim.
TooShortUntrimmed(text) == text = NullText \/ Len(text) < MIN_TEXT_LEN

\* `!text || text.trim().length < 3`
TooShort(text) == text = NullText \/ Len(Trim(text)) < MIN_TEXT_LEN

\* Whether classifyEmotion reaches its fetch: the text is long enough and the
\* credential is configured.
CallsModel(text, hasKey) == ~TooShort(text) /\ hasKey

\* Lines 83-97: the parsed content validated and clamped.
ParsedResult(reply) ==
  EmotionResult(
    IF reply.emotion \in ValidEmotions THEN reply.emotion ELSE "neutral",
    IF reply.kind = "jsonText" THEN NaN
    ELSE IF reply.confidence = Absent THEN CONF_HALF
    ELSE Max(0, Min(CONF_ONE, reply.confidence[1])))

\* classifyEmotion without its catch block: a failure of the model call
\* leaves the call without a result.
ModelCallResultNoCatch(reply) ==
  IF reply.kind \in {"json", "jsonText"} THEN ParsedResult(reply)
  ELSE EmotionResult("<thrown>", 0)

\* The try block of classifyEmotion: every throw inside it lands in the catch,
\* which returns {neutral, 0.5}.
ModelCallResult(reply) ==
  IF reply.kind \in {"json", "jsonText"} THEN ParsedResult(reply)
  ELSE EmotionResult("neutral", CONF_HALF)

\* classifyEmotion(text) with the credential and the model's reply as inputs.
classifyEmotion(text, hasKey, reply) ==
  IF TooShort(text) THEN EmotionResult("neutral", CONF_ONE)
  ELSE IF ~hasKey THEN EmotionResult("neutral", CONF_HALF)
  ELSE ModelCallResult(reply)

\* A summary that has a key only for the emotions that occur.
generateEmotionsSummarySparse(emotions) ==
  [e \in { emotions[i].emotion : i \in 1..Len(emotions) } |->
     Cardinality({ i \in 1..Len(emotions) : emotions[i].emotion = e })]

\* generateEmotionsSummary
generateEmotionsSummary(emotions) ==
  [e \in ValidEmotions |->
     Cardinality({ i \in 1..Len(emotions) : emotions[i].emotion = e })]

(***************************************************************************)
(* The source clients (utils/newsApiClient.ts, utils/gdeltClient).         *)
(***************************************************************************)
\* How the promise of a source client settles: rejected, or resolved with
\* the client's list.
Rejected == [rejected |-> TRUE, posts |-> << >>]

Resolved(posts) == [rejected |-> FALSE, posts |-> posts]

\* The NewsPost fetchNewsForCountry makes of an article (lines 98-105).
NewsPost(title, description, publishedAt, url) ==
  [text |-> title \o ". " \o description, createdAt |-> publishedAt,
   source |-> "newsapi", url |-> url, coordinates |-> Absent, tone |-> Absent]

\* A GdeltEvent as fetchGdeltEvents returns it (lines 176-184).
GdeltEvent(text, createdAt, url, coordinates, tone) ==
  [text |-> text, createdAt |-> createdAt, source |-> "gdelt",
   url |-> url, coordinates |-> coordinates, tone |-> tone]

\* fetchNewsForCountry: without a credential, when the page fetch throws and
\* when the page holds no articles, the result is the empty list; otherwise
\* the articles, at most `limit` of them.
fetchNewsForCountry(limit, hasKey, reply) ==
  IF ~hasKey \/ reply.kind # "articles" THEN << >>
  ELSE SubSeq(reply.items, 1, Min(limit, Len(reply.items)))

\* fetchGdeltEvents without a country name: a fetch that throws, an HTML or
\* error page, JSON that does not parse and JSON without an article array all
\* give the empty list; otherwise the events, at most `limit` of them.
fetchGdeltEvents(limit, reply) ==
  IF reply.kind # "articles" THEN << >>
  ELSE SubSeq(reply.items, 1, Min(limit, Len(reply.items)))

\* The fields of a GdeltEvent that the country filter reads.
RegionEvent(text, region) == [text |-> text, region |-> region]

\* requestedCountry.split(' ')[0]
RECURSIVE FirstWord(_)
FirstWord(str) == IF str = "" \/ Ch(str, 1) = " " THEN "" ELSE SubSeq(str, 1, 1) \o FirstWord(SubSeq(str, 2, Len(str)))

\* countryVariations[requestedCountry] || [requestedCountry] (lines 213-219)
CountryVariations(requestedCountry) ==
  IF requestedCountry = "united states" THEN << "united states", "usa", "us", "america" >>
  ELSE IF requestedCountry = "netherlands" THEN << "netherlands", "holland", "dutch", "nederland" >>
  ELSE IF requestedCountry = "united kingdom" THEN << "united kingdom", "uk", "britain", "england" >>
  ELSE << requestedCountry >>

\* The callback of allEvents.filter (lines 198-227).
CountryFilterKeeps(event, countryName) ==
  LET requestedCountry == ToLowerCase(countryName)
      eventCountry == ToLowerCase(event.region)
      eventText == ToLowerCase(event.text)
      countryInText == Includes(eventText, requestedCountry) \/ Includes(eventText, FirstWord(requestedCountry))
      variations == CountryVariations(requestedCountry)
      matchesVariation == \E i \in 1..Len(variations) :
                            \/ Includes(eventCountry, variations[i])
                            \/ Includes(variations[i], eventCountry)
                            \/ Includes(eventText, variations[i])
  IN eventCountry = requestedCountry \/ countryInText \/ matchesVariation

\* A test that gives the filter up below the whole limit.
FewerThanLimit(kept, limit) == kept < limit

\* filteredEvents.length < limit / 2 (line 234)
FewerThanHalf(kept, limit) == 2 * kept < limit

\* fetchGdeltEvents(limit, countryName) (part_006 lines 47-251) on the
\* upstream's reply, for limit >= 0; countryName "" stands for none.
fetchGdeltEventsIn(limit, countryName, reply) ==
  LET allEvents == reply.items
      Keeps(event) == CountryFilterKeeps(event, countryName)
      kept == SelectSeq(allEvents, Keeps)
      filteredEvents == IF countryName = "" THEN allEvents
                        ELSE IF FewerThanHalf(Len(kept), limit) /\ Len(allEvents) > 0 THEN allEvents
                        ELSE kept
  IN IF reply.kind # "articles" THEN << >>
     ELSE SubSeq(filteredEvents, 1, Min(limit, Len(filteredEvents)))

\* `.catch(err => { console.warn(...); return []; })` on a client's promise.
CatchEmpty(outcome) == IF outcome.rejected THEN << >> ELSE outcome.posts

\* new Date(ms).toISOString(): a RangeError for an invalid date (NaN).
IsoThrows(createdAt) == createdAt = Absent

ToISOString(createdAt) == << "iso", createdAt[1] >>

\* `x || fallback` on strings.
OrElse(x, fallback) == IF x = "" THEN fallback ELSE x

\* Lines 177-185 and 189-198: one source post in the uniform format; `index`
\* is the post's 0-based index in its client's list.
UniformPost(p, index) ==
  [text |-> p.text,
   createdAt |-> ToISOString(p.createdAt),
   source |-> p.source,
   uri |-> OrElse(p.url, p.source \o "-" \o ToString(index)),
   cid |-> p.source \o "-" \o ToString(index),
   lat |-> IF p.source = "gdelt" /\ p.coordinates # Absent
           THEN Num(p.coordinates[2]) ELSE Absent,
   lon |-> IF p.source = "gdelt" /\ p.coordinates # Absent
           THEN Num(p.coordinates[1]) ELSE Absent,
   tone |-> p.tone]

Formatted(ps) == [i \in 1..Len(ps) |-> UniformPost(ps[i], i - 1)]

\* Line 201: the two formatted lists, news first.
Combined(newsPosts, gdeltPosts) == Formatted(newsPosts) \o Formatted(gdeltPosts)

\* Whether building the combined list throws (an invalid date in any post).
CombineThrows(newsPosts, gdeltPosts) ==
  \/ \E i \in 1..Len(newsPosts) : IsoThrows(newsPosts[i].createdAt)
  \/ \E i \in 1..Len(gdeltPosts) : IsoThrows(gdeltPosts[i].createdAt)

(***************************************************************************)
(* The map formatter (src/unnamed/part_004, utils/formatMapData) and the   *)
(* scattering of utils/spreadUtil.ts.                                      *)
(***************************************************************************)
\* A coordinate is a number Num(n), no number (Absent: null, undefined or
\* NaN, all of which isNaN or the null test turn away) or an infinity, which
\* isNaN lets through.
Infinity == << "Infinity", 1 >>

IsFinite(x) == Len(x) = 1

\* isNaN(x)
IsNaN(x) == x = Absent

\* x + d for a finite d.
PlusFinite(x, d) == IF IsFinite(x) THEN Num(x[1] + d) ELSE x

\* spreadAroundRegion: the centre moved by a random offset << dLon, dLat >>,
\* both finite.  The longitude's offset is divided by the cosine of the
\* centre's latitude, which is NaN when the latitude is not finite.
spreadAroundRegion(center, offset) ==
  [lat |-> PlusFinite(center.lat, offset[2]),
   lon |-> IF IsFinite(center.lat) THEN PlusFinite(center.lon, offset[1])
           ELSE Absent]

\* Lines 105-135: the coordinates [lon, lat] of post p's feature, its own
\* when it has both, else scattered around the region centre; Absent when
\* the loop moves on without a feature.
FeatureCoordinates(p, regionCenter, offset) ==
  IF p.lat # Absent /\ p.lon # Absent
  THEN << p.lon, p.lat >>
  ELSE IF IsNaN(regionCenter.lat) \/ IsNaN(regionCenter.lng)
  THEN Absent
  ELSE LET pt == spreadAroundRegion([lat |-> regionCenter.lat,
                                     lon |-> regionCenter.lng], offset)
       IN IF IsNaN(pt.lat) \/ IsNaN(pt.lon) THEN Absent
          ELSE << pt.lon, pt.lat >>

\* The feature formatMapData emits for post p (lines 100-159): the emotion is
\* classified again.
Feature(p, emotion, regionCenter, offset) ==
  [coordinates |-> FeatureCoordinates(p, regionCenter, offset),
   emotion |-> emotion.emotion,
   confidence |-> emotion.confidence,
   intensity |-> emotion.confidence,
   text |-> p.text,
   source |-> p.source,
   url |-> p.uri,
   createdAt |-> p.createdAt]

\* formatMapData(posts, regionCenter): one feature per post that has
\* coordinates, in input order; keys[i], replies[i] and offsets[i] are the
\* credential, the model's reply and the random offset of post i's turn.
formatMapData(posts, regionCenter, keys, replies, offsets) ==
  LET features == [i \in 1..Len(posts) |->
                     Feature(posts[i],
                             classifyEmotion(posts[i].text, keys[i], replies[i]),
                             regionCenter, offsets[i])]
  IN SelectSeq2(features, [i \in 1..Len(posts) |-> features[i].coordinates # Absent])

(***************************************************************************)
(* The POST handler (src/unnamed/part_003).                                *)
(***************************************************************************)
\* Lines 273-282.
PostsWithEmotions(posts, emotionResults) ==
  [i \in 1..Len(posts) |->
     [id |-> OrElse(posts[i].uri, "post-" \o ToString(i - 1)),
      text |-> posts[i].text,
      created_at |-> posts[i].createdAt,
      author_id |-> OrElse(posts[i].cid, "author-" \o ToString(i - 1)),
      emotion |-> emotionResults[i],
      source |-> posts[i].source,
      uri |-> posts[i].uri,
      cid |-> posts[i].cid]]

\* Lines 305-314: the posts handed to formatMapData, without coordinates.
UnifiedPosts(postsWithEmotions) ==
  [i \in 1..Len(postsWithEmotions) |->
     [text |-> postsWithEmotions[i].text,
      createdAt |-> postsWithEmotions[i].created_at,
      source |-> postsWithEmotions[i].source,
      uri |-> postsWithEmotions[i].uri,
      cid |-> OrElse(postsWithEmotions[i].cid, "post-" \o ToString(i - 1)),
      lat |-> Absent,
      lon |-> Absent]]

\* The posts in the order given: no sort.
UnsortedPosts(ps) == ps

\* Array.prototype.sort with (a, b) => b.emotion.confidence -
\* a.emotion.confidence: a stable sort, highest confidence first.
RECURSIVE InsertByConfidence(_, _)
InsertByConfidence(sorted, p) ==
  IF sorted = << >> THEN << p >>
  ELSE IF Head(sorted).emotion.confidence >= p.emotion.confidence
       THEN << Head(sorted) >> \o InsertByConfidence(Tail(sorted), p)
       ELSE << p >> \o sorted

RECURSIVE SortByConfidence(_)
SortByConfidence(ps) ==
  IF ps = << >> THEN << >>
  ELSE InsertByConfidence(SortByConfidence(SubSeq(ps, 1, Len(ps) - 1)), ps[Len(ps)])

\* Lines 322-325: filter, sort, slice.
TopSelected(postsWithEmotions) ==
  LET qualifying == SelectSeq2(postsWithEmotions,
                      [i \in 1..Len(postsWithEmotions) |->
                         Len(postsWithEmotions[i].text) > 0])
      sorted == SortByConfidence(qualifying)
  IN SubSeq(sorted, 1, Min(TOP_POSTS, Len(sorted)))

\* Lines 322-329.
TopPosts(postsWithEmotions) ==
  LET top == TopSelected(postsWithEmotions)
  IN [i \in 1..Len(top) |->
        [text |-> Substring0(top[i].text, TOP_TEXT_LEN),
         emotion |-> top[i].emotion.emotion]]

\* A payload stored before formatMapData and the top posts are there.
ResponseDataPartial(regionName, regionCoords, geoJson, emotionResults, postsWithEmotions) ==
  [region |-> regionName,
   coordinates |-> regionCoords,
   geoJson |-> << >>,
   emotionsSummary |-> generateEmotionsSummary(emotionResults),
   topPosts |-> << >>,
   posts |-> postsWithEmotions]

\* Lines 334-341.
ResponseData(regionName, regionCoords, geoJson, emotionResults, postsWithEmotions) ==
  [region |-> regionName,
   coordinates |-> regionCoords,
   geoJson |-> geoJson,
   emotionsSummary |-> generateEmotionsSummary(emotionResults),
   topPosts |-> TopPosts(postsWithEmotions),
   posts |-> postsWithEmotions]

\* The request body: `region` is a string, some other JSON value or missing;
\* kind "invalid" is a body request.json() or the destructuring throws on.
Body(kind, val) == [kind |-> kind, val |-> val]

\* The region without the trim: a blank region stays a region.
RegionQueryUntrimmed(body) ==
  IF body.kind = "string" /\ body.val # "" THEN body.val ELSE ""

\* region && typeof region === 'string' ? region.trim() : ''
RegionQuery(body) ==
  IF body.kind = "string" /\ body.val # "" THEN Trim(body.val) ELSE ""

\* A key that keeps the region's case.
CacheKeyVerbatim(regionQuery) ==
  IF regionQuery # "" THEN "region:" \o Trim(regionQuery) ELSE "global"

\* Line 102.
CacheKey(regionQuery) ==
  IF regionQuery # "" THEN "region:" \o Trim(ToLowerCase(regionQuery)) ELSE "global"

\* getRegionCoordinates without the `!geocodeResponse.ok` test: a non-2xx
\* response is read like any other.
getRegionCoordinatesUnchecked(region, hasToken, reply) ==
  IF ~hasToken
  THEN [ok |-> FALSE, message |-> "NEXT_PUBLIC_MAPBOX_TOKEN is not configured",
        coords |-> Absent]
  ELSE IF reply.kind = "throws"
  THEN [ok |-> FALSE, message |-> "fetch failed", coords |-> Absent]
  ELSE IF reply.kind = "ok" /\ Len(reply.features) = 0
  THEN [ok |-> FALSE, message |-> "Region \"" \o region \o "\" not found",
        coords |-> Absent]
  ELSE [ok |-> TRUE, message |-> "",
        coords |-> IF Len(reply.features) = 0 THEN [lat |-> 0, lon |-> 0]
                   ELSE [lat |-> reply.features[1][2], lon |-> reply.features[1][1]]]

\* getRegionCoordinates: [ok |-> TRUE, coords] or [ok |-> FALSE, message],
\* and whether the geocoder is called at all.
GeocoderCalled(hasToken) == hasToken

getRegionCoordinates(region, hasToken, reply) ==
  IF ~hasToken
  THEN [ok |-> FALSE, message |-> "NEXT_PUBLIC_MAPBOX_TOKEN is not configured",
        coords |-> Absent]
  ELSE IF reply.kind = "throws"
  THEN [ok |-> FALSE, message |-> "fetch failed", coords |-> Absent]
  ELSE IF reply.kind = "notOk"
  THEN [ok |-> FALSE, message |-> "Failed to geocode region", coords |-> Absent]
  ELSE IF Len(reply.features) = 0
  THEN [ok |-> FALSE, message |-> "Region \"" \o region \o "\" not found",
        coords |-> Absent]
  ELSE [ok |-> TRUE, message |-> "",
        coords |-> [lat |-> reply.features[1][2], lon |-> reply.features[1][1]]]

\* The responses of the handler.  An error response carries no data.
NoData == [region |-> "", coordinates |-> Absent, geoJson |-> << >>,
           emotionsSummary |-> << >>, topPosts |-> << >>, posts |-> << >>]

Response(status, error, suggestion, data) ==
  [status |-> status, error |-> error, suggestion |-> suggestion, data |-> data]

Success(data) == Response(200, "", "", data)

RegionNotFound == Response(404, "Region not found or invalid", "", NoData)

ErrorData(regionName, regionCoords) ==
  [NoData EXCEPT !.region = regionName, !.coordinates = regionCoords]

NoPostsFound(regionQuery, regionName, regionCoords) ==
  Response(404, "No posts found for region: " \o OrElse(regionQuery, "global"),
           "Could not fetch posts from NewsAPI or GDELT. Make sure NEWSAPI_KEY is set in your environment variables, or try a different region.",
           ErrorData(regionName, regionCoords))

\* The filter's 404 answered with the words of the empty-fetch 404.
NoPostsMatchingAsFound(regionQuery, found, regionName, regionCoords) ==
  Response(404, "No posts found for region: " \o OrElse(regionQuery, "global"),
           "Could not fetch posts from NewsAPI or GDELT. Make sure NEWSAPI_KEY is set in your environment variables, or try a different region.",
           ErrorData(regionName, regionCoords))

NoPostsMatching(regionQuery, found, regionName, regionCoords) ==
  Response(404, "No posts found matching region: " \o regionQuery,
           "Found " \o ToString(found) \o " posts but none mentioned \""
             \o regionQuery \o "\" in the title or description. NewsAPI only filters by country, so city-specific filtering is limited. Try searching for a country instead, or a larger city.",
           ErrorData(regionName, regionCoords))

InternalError == Response(500, "Internal server error", "", NoData)


(***************************************************************************)
(* Inputs of the model.                                                    *)
(***************************************************************************)
\* Bodies whose region is empty, blank, not a string or missing.
GlobalBodies ==
  { Body("missing", ""), Body("number", ""),
    Body("string", ""), Body("string", "  ") }

RegionBodies == { Body("string", "Paris"), Body("string", " paris ") }

Bodies == { Body("invalid", "") } \cup GlobalBodies \cup RegionBodies

GeocoderReply(kind, features) == [kind |-> kind, features |-> features]

\* The centre of the first candidate is << longitude, latitude >>.
GeocoderFound == GeocoderReply("ok", << << 2, 49 >> >>)

GeocoderReplies ==
  { GeocoderReply("throws", << >>), GeocoderReply("notOk", << >>),
    GeocoderReply("ok", << >>), GeocoderFound }

SourceReply(kind, items) == [kind |-> kind, items |-> items]

NewsParis == NewsPost("Paris strike", "", Num(1000), "https://n/1")

GdeltOslo == GdeltEvent("Oslo fire", Num(2000), "", << 10, 60 >>, Num(-3))

\* An event whose seendate did not parse: its createdAt is NaN.
GdeltUndated == GdeltEvent("hi", Absent, "https://g/2", Absent, Absent)

NewsReplies ==
  { SourceReply("throws", << >>), SourceReply("empty", << >>),
    SourceReply("articles", << NewsParis >>) }

GdeltReplies ==
  { SourceReply("throws", << >>), SourceReply("html", << >>),
    SourceReply("noArray", << >>), SourceReply("articles", << GdeltOslo >>),
    SourceReply("articles", << GdeltUndated >>) }

\* What the handler's await of a client can see: the client's list, or a
\* rejection of its promise.
NewsOutcomes ==
  { Rejected } \cup
  { Resolved(fetchNewsForCountry(200, k, reply)) :
      k \in BOOLEAN, reply \in NewsReplies }

GdeltOutcomes ==
  { Rejected } \cup
  { Resolved(fetchGdeltEvents(250, reply)) : reply \in GdeltReplies }

ModelJoy == Reply("json", "joy", Num(90))

ModelThrows == Reply("throws", Missing, Absent)

\* A label outside the enumeration with a confidence above 1.
ModelRage == Reply("json", "rage", Num(150))

ModelFear == Reply("json", "fear", Num(35))

ModelReplies == FailedReplies \cup { ModelJoy, ModelRage, ModelFear }

ScatterOffsets == { << 0, 0 >>, << 1, -1 >> }

(***************************************************************************)
(* State.                                                                  *)
(***************************************************************************)
VARIABLES
  now,       \* Date.now()
  cache,     \* the module-level cache: key -> [timestamp, data]
  req,       \* the handler invocations in flight
  arrivals,  \* requests received so far
  util,      \* the last call of a utility function made on its own
  sockets,   \* the WebSocket objects startFirehose has created, in order
  timers,    \* the pending reconnect timers, in the order they were set
  postBuffer \* the module-level PostBuffer: its posts, ws and isRunning

vars == << now, cache, req, arrivals, util, sockets, timers, postBuffer >>

\* What the handler of the region route never touches.
outside == << util, sockets, timers, postBuffer >>

\* No utility function has been called.
NoCall == [fn |-> "none"]

\* new PostBuffer() (blueskyFirehose.ts lines 31-36, 187): no posts, no
\* socket (0 stands for null), not running.
NewPostBuffer == [posts |-> << >>, ws |-> 0, isRunning |-> FALSE]

\* A client's promise as the handler holds it: not started, pending, or
\* settled with the list the .catch leaves.
NotStarted == [state |-> "none", posts |-> << >>]

Pending == [state |-> "pending", posts |-> << >>]

Settled(posts) == [state |-> "settled", posts |-> posts]

NoCalls == [geocoder |-> 0, news |-> 0, gdelt |-> 0, model |-> 0]

\* What getRegionCoordinates met: the credential and the geocoder's reply.
Geocoded(hasToken, reply) == [hasToken |-> hasToken, reply |-> reply]

NotGeocoded == Geocoded(FALSE, GeocoderReply("none", << >>))

NoReply == Reply("none", Missing, Absent)

NoResult == EmotionResult(Missing, 0)

\* classifyEmotionsBatch is Promise.all(texts.map(text => classifyEmotion(text))).
\* One classifyEmotion(text) call of a batch, run up to its first await: a
\* short text and a missing credential return at once, otherwise the model
\* call is pending.
StartCall(text, hasKey) ==
  [text |-> text, hasKey |-> hasKey, made |-> CallsModel(text, hasKey),
   state |-> IF CallsModel(text, hasKey) THEN "pending" ELSE "settled",
   reply |-> NoReply,
   result |-> IF CallsModel(text, hasKey) THEN NoResult
              ELSE classifyEmotion(text, hasKey, NoReply)]

\* The model call of a pending classifyEmotion comes back with `reply`.
SettleCall(call, reply) ==
  [call EXCEPT !.state = "settled", !.reply = reply,
               !.result = classifyEmotion(call.text, call.hasKey, reply)]

\* Results pushed as the calls settle.
PromiseAllByArrival(batch, order) ==
  [k \in 1..Len(order) |-> batch[order[k]].result]

\* The value Promise.all resolves with: the results by the position of their
\* call in the input; `order` is the order in which the calls settled.
PromiseAll(batch, order) == [i \in 1..Len(batch) |-> batch[i].result]

AllSettled(batch) == \A i \in 1..Len(batch) : batch[i].state = "settled"

RECURSIVE SettledInOrder(_, _)
SettledInOrder(batch, i) ==
  IF i > Len(batch) THEN << >>
  ELSE (IF batch[i].state = "settled" THEN << i >> ELSE << >>)
         \o SettledInOrder(batch, i + 1)

\* A handler that is not running.  `calls` counts the upstream calls the
\* invocation has made.
IdleReq ==
  [pc |-> "idle", body |-> Body("missing", ""), regionQuery |-> "",
   cacheKey |-> "", geocoded |-> NotGeocoded,
   regionName |-> "", regionCoords |-> Absent,
   news |-> NotStarted, gdelt |-> NotStarted, posts |-> << >>,
   batch |-> << >>, order |-> << >>,
   emotionResults |-> << >>, resp |-> Response(0, "", "", NoData),
   calls |-> NoCalls]

Init ==
  /\ now = 0
  /\ cache = [k \in {} |-> 0]
  /\ req = [r \in Requests |-> IdleReq]
  /\ arrivals = 0
  /\ util = NoCall
  /\ sockets = << >>
  /\ timers = << >>
  /\ postBuffer = NewPostBuffer

CacheEntry(timestamp, data) == [timestamp |-> timestamp, data |-> data]

\* A write that updates the payload of an entry and keeps its timestamp.
CachePutPayload(c, key, entry) ==
  [k \in DOMAIN c \cup {key} |->
     IF k # key THEN c[k]
     ELSE IF key \in DOMAIN c
          THEN CacheEntry(c[key].timestamp, entry.data)
          ELSE entry]

\* cache[key] = entry
CachePut(c, key, entry) ==
  [k \in DOMAIN c \cup {key} |-> IF k = key THEN entry ELSE c[k]]

\* A lookup that leaves the stale entry in place.
CacheKeep(c, key) == c

\* delete cache[key]
CacheDelete(c, key) == [k \in DOMAIN c \ {key} |-> c[k]]

\* The handler returns: its locals are gone, the response stays.
Returned(q, resp) ==
  [IdleReq EXCEPT !.pc = "done", !.body = q.body, !.regionQuery = q.regionQuery,
                  !.cacheKey = q.cacheKey, !.geocoded = q.geocoded,
                  !.resp = resp, !.calls = q.calls]

\* Lines 161-172: both clients are called.
ClientsStarted(q) ==
  [q EXCEPT !.pc = "fetch", !.news = Pending, !.gdelt = Pending,
            !.calls.news = 1, !.calls.gdelt = 1]

\* `await classifyEmotionsBatch(postTexts)` resumes once every call has
\* settled (line 268); formatMapData is called next (lines 273-317).
Resumed(q) ==
  IF AllSettled(q.batch)
  THEN [q EXCEPT !.pc = "format",
                 !.emotionResults = PromiseAll(q.batch, q.order)]
  ELSE q

(***************************************************************************)
(* Actions.                                                                *)
(***************************************************************************)
\* Time passes.
Tick ==
  /\ now < MaxTicks * TickMs
  /\ now' = now + TickMs
  /\ UNCHANGED << cache, req, arrivals >>
  /\ UNCHANGED outside

\* Lines 87-140 up to the first await on an upstream: the body is read, the
\* cache is looked up, and on a miss the region is resolved (the geocoder is
\* awaited) or, for a global request, the clients are started.  `limit`
\* bounds the requests of one behaviour.
Start(r, body, limit) ==
  /\ req[r].pc = "idle"
  /\ arrivals < limit
  /\ arrivals' = arrivals + 1
  /\ LET regionQuery == RegionQuery(body)
         cacheKey == CacheKey(regionQuery)
         q == [IdleReq EXCEPT !.body = body, !.regionQuery = regionQuery,
                              !.cacheKey = cacheKey]
         hit == cacheKey \in DOMAIN cache
                  /\ now - cache[cacheKey].timestamp < CACHE_FRESH_MS
     IN IF body.kind = "invalid"
        THEN /\ req' = [req EXCEPT ![r] =
                          Returned([IdleReq EXCEPT !.body = body], InternalError)]
             /\ UNCHANGED cache
        ELSE IF hit
        THEN /\ req' = [req EXCEPT ![r] =
                          Returned(q, Success(cache[cacheKey].data))]
             /\ UNCHANGED cache
        ELSE /\ cache' = CacheDelete(cache, cacheKey)
             /\ req' = [req EXCEPT ![r] =
                  IF regionQuery # ""
                  THEN [q EXCEPT !.pc = "geocode"]
                  ELSE ClientsStarted(
                         [q EXCEPT !.regionName = "Global",
                                   !.regionCoords = [lat |-> 0, lon |-> 0]])]
  /\ UNCHANGED now
  /\ UNCHANGED outside

\* getRegionCoordinates settles (lines 123-135): a failure ends the request
\* with 404, a success starts the two clients (lines 161-172).
GeocodeDone(r, hasToken, reply) ==
  /\ req[r].pc = "geocode"
  /\ LET q == req[r]
         got == getRegionCoordinates(q.regionQuery, hasToken, reply)
         called == [q EXCEPT !.geocoded = Geocoded(hasToken, reply),
                             !.calls.geocoder =
                               IF GeocoderCalled(hasToken) THEN 1 ELSE 0]
     IN req' = [req EXCEPT ![r] =
          IF ~got.ok
          THEN Returned(called, RegionNotFound)
          ELSE ClientsStarted(
                 [called EXCEPT !.regionName = q.regionQuery,
                                !.regionCoords = got.coords])]
  /\ UNCHANGED << now, cache, arrivals >>
  /\ UNCHANGED outside

\* The NewsAPI client's promise settles.
NewsDone(r, outcome) ==
  /\ req[r].pc = "fetch"
  /\ req[r].news = Pending
  /\ req' = [req EXCEPT ![r].news = Settled(CatchEmpty(outcome))]
  /\ UNCHANGED << now, cache, arrivals >>
  /\ UNCHANGED outside

\* The GDELT client's promise settles.
GdeltDone(r, outcome) ==
  /\ req[r].pc = "fetch"
  /\ req[r].gdelt = Pending
  /\ req' = [req EXCEPT ![r].gdelt = Settled(CatchEmpty(outcome))]
  /\ UNCHANGED << now, cache, arrivals >>
  /\ UNCHANGED outside

\* Promise.all resolves (lines 174-268): the lists are formatted and
\* combined, filtered by region, and classifyEmotionsBatch starts one
\* classifyEmotion call per post; keys[i] is the credential call i reads.
Combine(r, keys) ==
  /\ req[r].pc = "fetch"
  /\ req[r].news.state = "settled"
  /\ req[r].gdelt.state = "settled"
  /\ LET q == req[r]
         combined == Combined(q.news.posts, q.gdelt.posts)
         filteredPosts == IF q.regionQuery # ""
                          THEN filterByRegion(combined, extractMainRegion(q.regionQuery))
                          ELSE combined
         batch == [i \in 1..Len(filteredPosts) |->
                     StartCall(filteredPosts[i].text, keys[i])]
     IN req' = [req EXCEPT ![r] =
          IF CombineThrows(q.news.posts, q.gdelt.posts)
          THEN Returned(q, InternalError)
          ELSE IF Len(combined) = 0
          THEN Returned(q, NoPostsFound(q.regionQuery, q.regionName, q.regionCoords))
          ELSE IF q.regionQuery # "" /\ Len(filteredPosts) = 0
          THEN Returned(q, NoPostsMatching(q.regionQuery, Len(combined),
                                           q.regionName, q.regionCoords))
          ELSE Resumed([q EXCEPT !.pc = "classify", !.posts = filteredPosts,
                                 !.batch = batch,
                                 !.order = SettledInOrder(batch, 1),
                                 !.calls.model =
                                   Cardinality({ i \in 1..Len(batch) : batch[i].made })])]
  /\ UNCHANGED << now, cache, arrivals >>
  /\ UNCHANGED outside

\* The model call of classifyEmotion call i comes back.
CallSettles(r, i, reply) ==
  /\ req[r].pc = "classify"
  /\ i \in 1..Len(req[r].batch)
  /\ req[r].batch[i].state = "pending"
  /\ req' = [req EXCEPT ![r] =
       Resumed([req[r] EXCEPT !.batch[i] = SettleCall(@, reply),
                              !.order = Append(@, i)])]
  /\ UNCHANGED << now, cache, arrivals >>
  /\ UNCHANGED outside

\* The number of model calls a round of classifications makes.
ModelCalls(texts, keys) ==
  Cardinality({ i \in 1..Len(texts) : CallsModel(texts[i], keys[i]) })

\* formatMapData resolves and the handler runs to its end (lines 317-354):
\* top posts, the response, the cache write.
FormatDone(r, keys, replies, offsets) ==
  /\ req[r].pc = "format"
  /\ LET q == req[r]
         postsWithEmotions == PostsWithEmotions(q.posts, q.emotionResults)
         unifiedPosts == UnifiedPosts(postsWithEmotions)
         geoJson == formatMapData(unifiedPosts,
                                  [lat |-> Num(q.regionCoords.lat),
                                   lng |-> Num(q.regionCoords.lon)],
                                  keys, replies, offsets)
         responseData == ResponseData(q.regionName, q.regionCoords, geoJson,
                                      q.emotionResults, postsWithEmotions)
         postTexts == [i \in 1..Len(q.posts) |-> q.posts[i].text]
         called == [q EXCEPT !.calls.model = @ + ModelCalls(postTexts, keys)]
     IN /\ cache' = CachePut(cache, q.cacheKey, CacheEntry(now, responseData))
        /\ req' = [req EXCEPT ![r] = Returned(called, Success(responseData))]
  /\ UNCHANGED << now, arrivals >>
  /\ UNCHANGED outside

\* The response is delivered and the invocation is over.
Retire(r) ==
  /\ req[r].pc = "done"
  /\ req' = [req EXCEPT ![r] = IdleReq]
  /\ UNCHANGED << now, cache, arrivals >>
  /\ UNCHANGED outside

\* The steps of the handlers `rs` under an environment that draws request
\* bodies, credentials and upstream replies from the given sets.
HandlerNext(rs, limit, bodies, tokens, geoReplies, newsOuts, gdeltOuts, keySet, batchReplies, formatReplies, offsetSet) ==
  \/ Tick
  \/ \E r \in rs, body \in bodies : Start(r, body, limit)
  \/ \E r \in rs, hasToken \in tokens, reply \in geoReplies :
       GeocodeDone(r, hasToken, reply)
  \/ \E r \in rs, outcome \in newsOuts : NewsDone(r, outcome)
  \/ \E r \in rs, outcome \in gdeltOuts : GdeltDone(r, outcome)
  \/ \E r \in rs :
       \E keys \in [1..(Len(req[r].news.posts) + Len(req[r].gdelt.posts)) -> keySet] :
         Combine(r, keys)
  \/ \E r \in rs, reply \in batchReplies :
       \E i \in 1..Len(req[r].batch) : CallSettles(r, i, reply)
  \/ \E r \in rs :
       \E keys \in [1..Len(req[r].posts) -> keySet],
          replies \in [1..Len(req[r].posts) -> formatReplies],
          offsets \in [1..Len(req[r].posts) -> offsetSet] :
         FormatDone(r, keys, replies, offsets)
  \/ \E r \in rs : Retire(r)

\* Two overlapping handler invocations over the shared cache and clock.
Next ==
  HandlerNext(Requests, MaxArrivals,
              { Body("string", "") } \cup RegionBodies,
              { TRUE }, { GeocoderReply("ok", << >>), GeocoderFound },
              { Resolved(<< >>), Resolved(<< NewsParis >>) },
              { Resolved(<< >>) },
              { TRUE }, { ModelThrows, ModelJoy }, { ModelJoy }, { << 1, -1 >> })

Spec == Init /\ [][Next]_vars

\* One invocation on a fresh process, under every input of the model.
NextPipeline ==
  HandlerNext({ "r1" }, 1, Bodies, BOOLEAN, GeocoderReplies, NewsOutcomes,
              GdeltOutcomes, BOOLEAN, ModelReplies, { ModelThrows, ModelJoy },
              ScatterOffsets)

SpecPipeline == Init /\ [][NextPipeline]_vars

(***************************************************************************)
(* Properties of the cache.                                                *)
(***************************************************************************)
\* Handler r takes its first step: the body is read and the cache looked up.
Arrives(r) == req[r].pc = "idle" /\ req'[r].pc # "idle"

\* The entry under `key` as the lookup of this step finds it.
FreshAt(key) == key \in DOMAIN cache /\ now - cache[key].timestamp < 30000

StaleAt(key) == key \in DOMAIN cache /\ now - cache[key].timestamp >= 30000

InPipeline(q) == q.pc \in {"geocode", "fetch", "classify", "format"}

\* The key the regions of the model stand for: both spellings of Paris share
\* one key, every empty, blank or non-string region has the global key.
KeyOf(body) == IF body \in RegionBodies THEN "region:paris" ELSE "global"

\* C1: a request whose cache key (the region lowercased and trimmed, or the
\* global key for an empty region) has an entry stored less than 30 seconds
\* earlier is answered with that entry's payload, unchanged, and calls
\* neither the geocoder nor a source client nor the classifier.
C1_CacheHit ==
  [][\A r \in Requests :
       (Arrives(r) /\ req'[r].body.kind # "invalid"
          /\ FreshAt(KeyOf(req'[r].body))) =>
         /\ req'[r].pc = "done"
         /\ req'[r].resp.status = 200
         /\ req'[r].resp.data = cache[KeyOf(req'[r].body)].data
         /\ req'[r].calls = NoCalls
         /\ cache' = cache]_vars

\* A request for " paris " answered, 15 s later and without any upstream
\* call, with the payload a request for "Paris" stored.
C1_Witness ==
  \E r \in Requests :
    /\ req[r].pc = "done"
    /\ req[r].body = Body("string", " paris ")
    /\ req[r].resp.status = 200
    /\ req[r].calls = NoCalls
    /\ "region:paris" \in DOMAIN cache
    /\ req[r].resp.data = cache["region:paris"].data
    /\ req[r].resp.data.region = "Paris"
    /\ now > cache["region:paris"].timestamp

\* C2: an entry leaves the cache only in the lookup of a request for its own
\* key that finds it 30 seconds old or older; that lookup deletes the entry,
\* leaves every other entry alone and sends the request into the pipeline;
\* no other step (the passing of time included) removes an entry.
C2_LazyEviction ==
  [][/\ \A k \in DOMAIN cache :
          k \notin DOMAIN cache' =>
            \E r \in Requests :
              /\ Arrives(r)
              /\ req'[r].cacheKey = k
              /\ now - cache[k].timestamp >= 30000
              /\ InPipeline(req'[r])
     /\ \A r \in Requests :
          (Arrives(r) /\ StaleAt(KeyOf(req'[r].body))
             /\ req'[r].body.kind # "invalid") =>
            /\ KeyOf(req'[r].body) \notin DOMAIN cache'
            /\ InPipeline(req'[r])
            /\ \A k \in DOMAIN cache \ { KeyOf(req'[r].body) } :
                 k \in DOMAIN cache' /\ cache'[k] = cache[k]]_vars

\* One request ran the pipeline and stored its payload; 30 s or more later
\* the other request, for the same key, is in the pipeline and the entry is
\* gone.
C2_Witness ==
  \E r1, r2 \in Requests :
    /\ r1 # r2
    /\ req[r1].pc = "done"
    /\ req[r1].resp.status = 200
    /\ req[r1].calls.news = 1
    /\ req[r2].pc = "fetch"
    /\ req[r2].cacheKey = req[r1].cacheKey
    /\ req[r2].cacheKey \notin DOMAIN cache
    /\ now >= 30000

\* A complete success payload: region, coordinates, at least one post, each
\* with a valid emotion, one feature per post, the summary of the posts'
\* emotions and the top posts.
CompletePayload(d) ==
  /\ d.region # ""
  /\ d.coordinates # Absent
  /\ Len(d.posts) >= 1
  /\ \A i \in 1..Len(d.posts) : d.posts[i].emotion.emotion \in ValidEmotions
  /\ Len(d.geoJson) = Len(d.posts)
  /\ Len(d.topPosts) = Min(10, Len(d.posts))
  /\ DOMAIN d.emotionsSummary = ValidEmotions
  /\ \A e \in ValidEmotions :
       d.emotionsSummary[e] =
         Cardinality({ i \in 1..Len(d.posts) : d.posts[i].emotion.emotion = e })

\* C3: an entry is written only by the last step of a run that answers 200,
\* and holds that run's payload; a request that ends in an error (region not
\* resolved, no posts, no posts after the filter, an exception) leaves the
\* cache as it was; every entry in the cache is a complete success payload.
C3_WriteOnlyOnSuccess ==
  /\ [](\A k \in DOMAIN cache : CompletePayload(cache[k].data))
  /\ [][/\ \A k \in DOMAIN cache' :
             (k \notin DOMAIN cache \/ cache'[k] # cache[k]) =>
               \E r \in Requests :
                 /\ req[r].pc = "format"
                 /\ req'[r].pc = "done"
                 /\ req[r].cacheKey = k
                 /\ req'[r].resp.status = 200
                 /\ cache'[k].data = req'[r].resp.data
        /\ \A r \in Requests :
             (req[r].pc # "done" /\ req'[r].pc = "done"
                /\ req'[r].resp.status # 200) =>
               cache' = cache]_vars

\* A global request whose clients were both called and returned nothing ended
\* with a 404, and the cache is empty.
C3_Witness ==
  \E r \in Requests :
    /\ req[r].pc = "done"
    /\ req[r].resp.status = 404
    /\ req[r].resp.error = "No posts found for region: global"
    /\ req[r].calls.news = 1
    /\ req[r].calls.gdelt = 1
    /\ DOMAIN cache = {}

\* C4: a request that finds no fresh entry under its key enters the pipeline
\* whether or not another request for the key is in flight; and every write
\* puts a whole entry under the finishing run's key: the time of the write
\* and the payload of that same run.  An entry is never part one run, part
\* another.
C4_OverlapWholeWrite ==
  [][/\ \A r \in Requests :
          (Arrives(r) /\ req'[r].body.kind # "invalid"
             /\ ~FreshAt(KeyOf(req'[r].body))) =>
            InPipeline(req'[r])
     /\ \A k \in DOMAIN cache' :
          \/ k \in DOMAIN cache /\ cache'[k] = cache[k]
          \/ \E r \in Requests :
               /\ req[r].pc = "format"
               /\ req'[r].pc = "done"
               /\ req[r].cacheKey = k
               /\ cache'[k] = [timestamp |-> now, data |-> req'[r].resp.data]]_vars

\* Two requests for the same key both ran the pipeline, with different
\* payloads; the cache holds one entry, the payload of one of them.
C4_Witness ==
  \E r1, r2 \in Requests :
    /\ r1 # r2
    /\ req[r1].pc = "done" /\ req[r2].pc = "done"
    /\ req[r1].resp.status = 200 /\ req[r2].resp.status = 200
    /\ req[r1].calls.news = 1 /\ req[r2].calls.news = 1
    /\ req[r1].cacheKey = req[r2].cacheKey
    /\ req[r1].resp.data # req[r2].resp.data
    /\ DOMAIN cache = { req[r1].cacheKey }
    /\ cache[req[r1].cacheKey].data = req[r2].resp.data

(***************************************************************************)
(* Properties of one run of the pipeline.                                  *)
(***************************************************************************)
\* Region resolution failed: no credential, a fetch that throws, a non-2xx
\* response, or no candidate.
ResolutionFailed(g) ==
  \/ ~g.hasToken
  \/ g.reply.kind \in {"throws", "notOk"}
  \/ g.reply.kind = "ok" /\ Len(g.reply.features) = 0

\* C5: when the resolution of a non-empty region fails, the request ends
\* with the 404 "Region not found or invalid"; no source client and no
\* classification was started and nothing is cached under its key.
C5_ResolutionFailureStops ==
  \A r \in Requests :
    (req[r].geocoded # NotGeocoded /\ ResolutionFailed(req[r].geocoded)) =>
      /\ req[r].pc = "done"
      /\ req[r].resp.status = 404
      /\ req[r].resp.error = "Region not found or invalid"
      /\ req[r].calls.news = 0
      /\ req[r].calls.gdelt = 0
      /\ req[r].calls.model = 0
      /\ req[r].cacheKey \notin DOMAIN cache

\* The geocoder was called and answered non-2xx.
C5_Witness ==
  \E r \in Requests :
    /\ req[r].pc = "done"
    /\ req[r].geocoded.hasToken
    /\ req[r].geocoded.reply.kind = "notOk"
    /\ req[r].calls.geocoder = 1
    /\ req[r].resp.status = 404

\* C6: a request whose region is empty, blank, not a string or missing is a
\* global request: key "global", never the geocoder, centre (0,0) and name
\* "Global", the combined posts unfiltered, and never one of the region 404s.
C6_GlobalRequest ==
  \A r \in Requests :
    (req[r].pc # "idle" /\ req[r].body \in GlobalBodies) =>
      /\ req[r].regionQuery = ""
      /\ req[r].cacheKey = "global"
      /\ req[r].pc # "geocode"
      /\ req[r].geocoded = NotGeocoded
      /\ req[r].calls.geocoder = 0
      /\ req[r].pc \in {"fetch", "classify", "format"} =>
           /\ req[r].regionName = "Global"
           /\ req[r].regionCoords = [lat |-> 0, lon |-> 0]
      /\ req[r].pc \in {"classify", "format"} =>
           req[r].posts = Combined(req[r].news.posts, req[r].gdelt.posts)
      /\ req[r].pc = "done" =>
           /\ req[r].resp.error # "Region not found or invalid"
           /\ ~StartsWith(req[r].resp.error, "No posts found matching region")
           /\ req[r].resp.status = 200 =>
                /\ req[r].resp.data.region = "Global"
                /\ req[r].resp.data.coordinates = [lat |-> 0, lon |-> 0]

\* A blank region: both posts, neither of which names a region, went on to
\* classification.
C6_Witness ==
  \E r \in Requests :
    /\ req[r].body = Body("string", "  ")
    /\ req[r].pc = "format"
    /\ req[r].regionName = "Global"
    /\ Len(req[r].posts) = 2
    /\ req[r].posts[2].text = "Oslo fire"

\* C7: the request ends at the fetch step (before the region filter) only
\* when both clients' lists, a failed client's being empty, are empty.
C7_FailsOnlyWhenAllEmpty ==
  [][\A r \in Requests :
       (req[r].pc = "fetch" /\ req'[r].pc = "done"
          /\ ~StartsWith(req'[r].resp.error, "No posts found matching region")) =>
         Len(req[r].news.posts) + Len(req[r].gdelt.posts) = 0]_vars

\* GDELT returned an event whose date is invalid; the request, whose body
\* was read and whose clients were called, ended with a 500.
C7_Witness ==
  \E r \in Requests :
    /\ req[r].pc = "done"
    /\ req[r].body.kind # "invalid"
    /\ req[r].calls.gdelt = 1
    /\ req[r].resp.status = 500

C9_BatchKeepsInputOrder ==
  /\ [](\A r \in Requests :
          req[r].pc = "format" =>
            /\ Len(req[r].emotionResults) = Len(req[r].posts)
            /\ Len(req[r].batch) = Len(req[r].posts)
            /\ \A i \in 1..Len(req[r].posts) :
                 /\ req[r].batch[i].text = req[r].posts[i].text
                 /\ req[r].emotionResults[i] =
                      classifyEmotion(req[r].posts[i].text, req[r].batch[i].hasKey,
                                      req[r].batch[i].reply))
  /\ [][\A r \in Requests :
          (req[r].pc = "format" /\ req'[r].pc = "done") =>
            /\ Len(req'[r].resp.data.posts) = Len(req[r].posts)
            /\ \A i \in 1..Len(req[r].posts) :
                 /\ req'[r].resp.data.posts[i].text = req[r].posts[i].text
                 /\ req'[r].resp.data.posts[i].emotion = req[r].emotionResults[i]]_vars

\* The call for the second text settled first, and the two results differ.
C9_Witness ==
  \E r \in Requests :
    /\ req[r].pc = "format"
    /\ req[r].order = << 2, 1 >>
    /\ req[r].emotionResults[1] # req[r].emotionResults[2]
    /\ req[r].emotionResults[2] = req[r].batch[2].result

\* C10: every settled classifyEmotion call has a result, a valid emotion
\* with a confidence from 0 to 1; without the credential it is {neutral,
\* 0.5} and no model call was made; after a model call that threw, answered
\* non-2xx, had no content or no valid JSON it is {neutral, 0.5}; and a
\* request that has started classifying ends with 200.
C10_ClassifierNeverFails ==
  /\ [](\A r \in Requests :
          \A i \in 1..Len(req[r].batch) :
            LET c == req[r].batch[i]
            IN c.state = "settled" =>
                 /\ c.result.emotion \in ValidEmotions
                 /\ c.result.confidence \in 0..100
                 /\ (Len(Trim(c.text)) >= 3 /\ ~c.hasKey) =>
                      /\ ~c.made
                      /\ c.reply = NoReply
                      /\ c.result = [emotion |-> "neutral", confidence |-> 50]
                 /\ (c.made /\ c.reply.kind \in {"throws", "notOk", "noContent", "badJson"}) =>
                      c.result = [emotion |-> "neutral", confidence |-> 50])
  /\ [][\A r \in Requests :
          (req[r].pc \in {"classify", "format"} /\ req'[r].pc # req[r].pc) =>
            \/ req'[r].pc = "format"
            \/ req'[r].pc = "done" /\ req'[r].resp.status = 200]_vars

\* One call got content that is no JSON, the other found no credential; the
\* batch resolved with two {neutral, 0.5}.
C10_Witness ==
  \E r \in Requests :
    /\ req[r].pc = "format"
    /\ Len(req[r].batch) = 2
    /\ req[r].batch[1].made
    /\ req[r].batch[1].reply.kind = "badJson"
    /\ ~req[r].batch[2].hasKey
    /\ ~req[r].batch[2].made
    /\ req[r].emotionResults = << [emotion |-> "neutral", confidence |-> 50],
                                  [emotion |-> "neutral", confidence |-> 50] >>

(***************************************************************************)
(* The utility functions called on their own: one call at a time, with its *)
(* arguments drawn from the sets below, then the caller takes the result.  *)
(***************************************************************************)
ClassifyTexts ==
  { NullText, "", "a", " a ", "  ab  ", "abc", " abc", "Paris riots" }

\* The labels a model's JSON may carry: the six, none, one outside the
\* enumeration, one of the six in another case.
EmotionLabels == ValidEmotions \cup { Missing, "rage", "Joy" }

\* The confidences a model's JSON may carry, in hundredths, or none.
ConfidenceValues == { Absent, Num(-20), Num(0), Num(35), Num(100), Num(150) }

ClassifyReplies ==
  FailedReplies
    \cup { Reply("json", e, c) : e \in EmotionLabels, c \in ConfidenceValues }
    \cup { Reply("jsonText", e, Absent) : e \in EmotionLabels }

\* classifyEmotion(text) is called; `reply` is what its model call, if it
\* makes one, comes to.
CallClassify(text, hasKey, reply) ==
  /\ util = NoCall
  /\ util' = [fn |-> "classifyEmotion", text |-> text, hasKey |-> hasKey,
              reply |-> IF CallsModel(text, hasKey) THEN reply ELSE NoReply,
              modelCalls |-> IF CallsModel(text, hasKey) THEN 1 ELSE 0,
              result |-> classifyEmotion(text, hasKey, reply)]
  /\ UNCHANGED << now, cache, req, arrivals, sockets, timers, postBuffer >>

\* A text of 284 characters.
LongText ==
  LET t10 == "0123456789"
      t40 == t10 \o t10 \o t10 \o t10
      t280 == t40 \o t40 \o t40 \o t40 \o t40 \o t40 \o t40
  IN t280 \o "tail"

\* A classified post, by the fields the top posts read.
ClassifiedPost(text, emotion, confidence) ==
  [text |-> text, emotion |-> EmotionResult(emotion, confidence)]

\* A run of posts of middling confidence.
FillerPosts(n) == [i \in 1..n |-> ClassifiedPost("filler", "neutral", CONF_HALF)]

FreePosts ==
  { ClassifiedPost(t, "joy", c) : t \in { "", LongText }, c \in { 0, CONF_HALF, CONF_ONE } }

\* The lists the top posts are taken of: no filler or MaxFiller filler
\* posts, then up to MaxFree posts of any text and confidence.
PostLists ==
  UNION { { FillerPosts(k) \o tail : tail \in [1..n -> FreePosts] } :
            k \in { 0, MaxFiller }, n \in 0..MaxFree }

\* Lines 322-329 of the handler on a list of classified posts.
CallTopPosts(posts) ==
  /\ util = NoCall
  /\ util' = [fn |-> "topPosts", posts |-> posts,
              selected |-> TopSelected(posts), result |-> TopPosts(posts)]
  /\ UNCHANGED << now, cache, req, arrivals, sockets, timers, postBuffer >>

\* A unified post for formatMapData; its text tells its place in the list.
MapPost(i, lat, lon) ==
  [text |-> "post " \o ToString(i), createdAt |-> "1970-01-01T00:00:02.000Z",
   source |-> "gdelt", uri |-> "", cid |-> "gdelt-" \o ToString(i - 1),
   lat |-> lat, lon |-> lon]

\* Lists of up to MaxMapPosts posts, each coordinate a number, none or an
\* infinity.
MapPostLists ==
  UNION { { [i \in 1..n |-> MapPost(i, lats[i], lons[i])] :
              lats \in [1..n -> { Absent, Num(60), Infinity }],
              lons \in [1..n -> { Absent, Num(10), Infinity }] } :
            n \in 0..MaxMapPosts }

\* Region centres: each coordinate a number, NaN or an infinity.
RegionCenters ==
  { [lat |-> a, lng |-> b] : a \in { Num(48), Absent, Infinity },
                             b \in { Num(2), Absent, Infinity } }

\* formatMapData(posts, regionCenter) is called, without a credential for
\* its classifications; every scattered post gets the offset `offset`.
CallFormatMapData(posts, regionCenter, offset) ==
  /\ util = NoCall
  /\ util' = [fn |-> "formatMapData", posts |-> posts,
              regionCenter |-> regionCenter, offset |-> offset,
              result |-> formatMapData(posts, regionCenter,
                                       [i \in 1..Len(posts) |-> FALSE],
                                       [i \in 1..Len(posts) |-> NoReply],
                                       [i \in 1..Len(posts) |-> offset])]
  /\ UNCHANGED << now, cache, req, arrivals, sockets, timers, postBuffer >>

\* Texts of posts for the region filter.
FilterTexts ==
  { "Berlin protests grow", "berl tower opens", "xx marks the spot",
    "Area51 raid", "Brooklyn bridge closed", "" }

FilterPostLists ==
  UNION { { [i \in 1..n |-> [text |-> texts[i]]] : texts \in [1..n -> FilterTexts] } :
            n \in 0..MaxFilterPosts }

\* Regions: a token of two characters, one character, none; names outside
\* the keyword table; names in it.
FilterRegions ==
  { "xx", "x", "", "??", "Berlin", "Area51", "Berlin, Germany", "New York, NY",
    "Brooklyn" }

\* filterByRegion(posts, region) is called.
CallFilterByRegion(posts, region) ==
  /\ util = NoCall
  /\ util' = [fn |-> "filterByRegion", posts |-> posts, region |-> region,
              mainRegion |-> extractMainRegion(region),
              result |-> filterByRegion(posts, region)]
  /\ UNCHANGED << now, cache, req, arrivals, sockets, timers, postBuffer >>

\* Region strings for the country lookup.
CountryRegions ==
  { "", "Atlantis", "Paris", "PARIS, France", "Vienna, Austria", "austria",
    "Russia", "South Africa", "New York, United States", "Tokyo", "uk",
    "Oslo, Norway", " Lebanon ", "default" }

\* extractCountryFromRegion(region) is called.
CallExtractCountry(region) ==
  /\ util = NoCall
  /\ util' = [fn |-> "extractCountryFromRegion", region |-> region,
              result |-> extractCountryFromRegion(region)]
  /\ UNCHANGED << now, cache, req, arrivals, sockets, timers, postBuffer >>

\* Events of the upstream: from France, about France from elsewhere, and
\* one that has nothing to do with it.
EventsSeen ==
  { RegionEvent("Strike in Paris", "France"), RegionEvent("France votes", "unknown"),
    RegionEvent("Berlin calm", "Germany") }

\* The replies of the upstream: no article list, or up to MaxEvents events.
EventReplies ==
  { SourceReply("throws", << >>), SourceReply("html", << >>) }
    \cup { SourceReply("articles", items) : items \in UNION { [1..n -> EventsSeen] : n \in 0..MaxEvents } }

\* The country names and limits of a call.
CountryNames == { "", "France", "United States" }
EventLimits == 0..(MaxEvents + 1)

\* fetchGdeltEvents(limit, countryName) is called.
CallFetchGdeltEvents(limit, countryName, reply) ==
  /\ util = NoCall
  /\ util' = [fn |-> "fetchGdeltEvents", limit |-> limit, countryName |-> countryName, reply |-> reply,
              result |-> fetchGdeltEventsIn(limit, countryName, reply)]
  /\ UNCHANGED << now, cache, req, arrivals, sockets, timers, postBuffer >>

\* extractMainRegion(region) is called, and called again on what it returned,
\* as the POST handler (part_003 line 225) and then filterByRegion (line 136)
\* do.
CallExtractMainRegion(region) ==
  /\ util = NoCall
  /\ util' = [fn |-> "extractMainRegion", region |-> region,
              result |-> extractMainRegion(region),
              again |-> extractMainRegion(extractMainRegion(region))]
  /\ UNCHANGED << now, cache, req, arrivals, sockets, timers, postBuffer >>

\* The caller has the result.
UtilReturn ==
  /\ util # NoCall
  /\ util' = NoCall
  /\ UNCHANGED << now, cache, req, arrivals, sockets, timers, postBuffer >>

NextUtil ==
  \/ \E text \in ClassifyTexts, hasKey \in BOOLEAN, reply \in ClassifyReplies :
       CallClassify(text, hasKey, reply)
  \/ \E posts \in PostLists : CallTopPosts(posts)
  \/ \E region \in CountryRegions : CallExtractCountry(region)
  \/ \E region \in FilterRegions : CallExtractMainRegion(region)
  \/ \E limit \in EventLimits, countryName \in CountryNames, reply \in EventReplies : CallFetchGdeltEvents(limit, countryName, reply)
  \/ \E posts \in FilterPostLists, region \in FilterRegions :
       CallFilterByRegion(posts, region)
  \/ \E posts \in MapPostLists, regionCenter \in RegionCenters,
        offset \in ScatterOffsets :
       CallFormatMapData(posts, regionCenter, offset)
  \/ UtilReturn

SpecUtil == Init /\ [][NextUtil]_vars

(***************************************************************************)
(* Properties of the classifier.                                           *)
(***************************************************************************)
\* C11: for a text that is null, empty or shorter than 3 characters once
\* the white space at its ends is removed, classifyEmotion returns
\* {neutral, 1.0} and makes no model call, with or without a credential.
C11_ShortTextNeutral ==
  (util.fn = "classifyEmotion"
     /\ (util.text = NullText \/ Len(Trim(util.text)) <= 2)) =>
    /\ util.result = [emotion |-> "neutral", confidence |-> 100]
    /\ util.modelCalls = 0

\* A text of three characters, two of them spaces, with a credential.
C11_Witness ==
  /\ util.fn = "classifyEmotion"
  /\ util.text = " a "
  /\ util.hasKey
  /\ util.result = [emotion |-> "neutral", confidence |-> 100]
  /\ util.modelCalls = 0

\* C12: every result of classifyEmotion has one of the six emotions and a
\* confidence in [0, 1]; of a model's answer, a label outside the six or
\* missing becomes neutral, a confidence below 0 becomes 0, above 1 becomes
\* 1, a missing one 0.5.
C12_ResultWellFormed ==
  util.fn = "classifyEmotion" =>
    /\ util.result.emotion \in {"anger", "sadness", "fear", "joy", "hope", "neutral"}
    /\ util.result.confidence \in 0..100
    /\ util.reply.kind = "json" =>
         /\ util.result.emotion =
              IF util.reply.emotion \in {"anger", "sadness", "fear", "joy", "hope", "neutral"}
              THEN util.reply.emotion ELSE "neutral"
         /\ util.reply.confidence = Absent => util.result.confidence = 50
         /\ util.reply.confidence # Absent =>
              /\ util.reply.confidence[1] < 0 => util.result.confidence = 0
              /\ util.reply.confidence[1] > 100 => util.result.confidence = 100
              /\ util.reply.confidence[1] \in 0..100 =>
                   util.result.confidence = util.reply.confidence[1]

\* The model answered {"emotion": "joy", "confidence": "high"}: the result's
\* confidence is NaN.
C12_Witness ==
  /\ util.fn = "classifyEmotion"
  /\ util.reply.kind = "jsonText"
  /\ util.reply.emotion = "joy"
  /\ util.result.emotion = "joy"
  /\ util.result.confidence = NaN

(***************************************************************************)
(* Properties of the success response.                                     *)
(***************************************************************************)
\* The payloads of the success responses held by a request or by the cache.
SuccessPayloads ==
  { req[r].resp.data : r \in { q \in Requests : req[q].resp.status = 200 } }
    \cup { cache[k].data : k \in DOMAIN cache }

\* C13: in every success response emotionsSummary has exactly the six keys,
\* each a count of zero or more, and the six counts add up to the number of
\* posts of the response.
C13_SummaryCountsPosts ==
  \A d \in SuccessPayloads :
    /\ DOMAIN d.emotionsSummary = {"anger", "sadness", "fear", "joy", "hope", "neutral"}
    /\ \A e \in DOMAIN d.emotionsSummary : d.emotionsSummary[e] >= 0
    /\ d.emotionsSummary["anger"] + d.emotionsSummary["sadness"]
         + d.emotionsSummary["fear"] + d.emotionsSummary["joy"]
         + d.emotionsSummary["hope"] + d.emotionsSummary["neutral"]
       = Len(d.posts)

\* Two posts, one classified as fear and one whose label the classifier
\* replaced by neutral: four keys are zero.
C13_Witness ==
  \E r \in Requests :
    /\ req[r].resp.status = 200
    /\ Len(req[r].resp.data.posts) = 2
    /\ req[r].resp.data.posts[1].emotion = [emotion |-> "fear", confidence |-> 35]
    /\ req[r].resp.data.posts[2].emotion = [emotion |-> "neutral", confidence |-> 100]
    /\ req[r].calls.model >= 2
    /\ req[r].resp.data.emotionsSummary["fear"] = 1
    /\ req[r].resp.data.emotionsSummary["neutral"] = 1
    /\ req[r].resp.data.emotionsSummary["joy"] = 0

\* The number of entries of a list that satisfy a test.
CountOf(ps, Test(_)) == Cardinality({ i \in 1..Len(ps) : Test(ps[i]) })

C15_OwnCoordinatesKept ==
  [][\A r \in Requests :
       (req[r].pc = "format" /\ req'[r].pc = "done" /\ req'[r].resp.status = 200) =>
         \A i \in 1..Len(req[r].posts) :
           LET p == req[r].posts[i]
           IN (p.lat # Absent /\ p.lon # Absent) =>
                \E k \in 1..Len(req'[r].resp.data.geoJson) :
                  /\ req'[r].resp.data.geoJson[k].text = p.text
                  /\ req'[r].resp.data.geoJson[k].coordinates = << p.lon, p.lat >>]_vars

\* The GDELT event "Oslo fire", which has the coordinates [10, 60], is in a
\* success response with a feature scattered to [1, -1] around the global
\* centre.
C15_Witness ==
  \E r \in Requests :
    /\ req[r].pc = "done"
    /\ req[r].resp.status = 200
    /\ req[r].calls.gdelt = 1
    /\ \E k \in 1..Len(req[r].resp.data.geoJson) :
         /\ req[r].resp.data.geoJson[k].text = "Oslo fire"
         /\ req[r].resp.data.geoJson[k].source = "gdelt"
         /\ req[r].resp.data.geoJson[k].coordinates = << Num(1), Num(-1) >>

\* A coordinate that is a finite number: not null, not NaN, not an infinity.
FiniteNumber(x) == x # Absent /\ x # Infinity

\* C16: formatMapData emits no feature with a NaN or infinite longitude or
\* latitude; the features are, in input order, the posts that remain when
\* those whose own or scattered coordinates are not finite, and those
\* without coordinates under an invalid region centre, are dropped.
C16_FiniteCoordinates ==
  util.fn = "formatMapData" =>
    LET posts == util.posts
        center == util.regionCenter
        Own(p) == p.lat # Absent /\ p.lon # Absent
        Remains(p) ==
          IF Own(p) THEN FiniteNumber(p.lat) /\ FiniteNumber(p.lon)
          ELSE FiniteNumber(center.lat) /\ FiniteNumber(center.lng)
        kept == SelectSeq2(posts, [i \in 1..Len(posts) |-> Remains(posts[i])])
    IN /\ \A k \in 1..Len(util.result) :
            /\ FiniteNumber(util.result[k].coordinates[1])
            /\ FiniteNumber(util.result[k].coordinates[2])
       /\ [k \in 1..Len(util.result) |-> util.result[k].text]
            = [k \in 1..Len(kept) |-> kept[k].text]

\* A post whose latitude is Infinity and whose longitude is 10 is emitted
\* with the coordinates [10, Infinity].
C16_Witness ==
  /\ util.fn = "formatMapData"
  /\ Len(util.posts) >= 1
  /\ util.posts[1].lat = Infinity
  /\ util.posts[1].lon = Num(10)
  /\ Len(util.result) >= 1
  /\ util.result[1].text = util.posts[1].text
  /\ util.result[1].coordinates = << Num(10), Infinity >>

(***************************************************************************)
(* Properties of the region filter.                                        *)
(***************************************************************************)
\* C17: when the region's canonical token (what extractMainRegion makes of
\* it) has no curated keyword list and fewer than 3 characters once
\* normalized, filterByRegion returns the empty list whatever the posts.
C17_FailsClosed ==
  (util.fn = "filterByRegion"
     /\ RegionKeywords(util.mainRegion) = << >>
     /\ Len(normalize(util.mainRegion)) <= 2) =>
    util.result = << >>

\* Region "xx" with a post that says "xx": nothing is kept.
C17_Witness ==
  /\ util.fn = "filterByRegion"
  /\ util.region = "xx"
  /\ Len(util.posts) = 2
  /\ util.posts[1].text = "xx marks the spot"
  /\ util.result = << >>

\* A region that is one word of at least 3 letters and digits, in which no
\* key of the keyword table occurs.
PlainName(region) ==
  /\ Len(region) >= 3
  /\ \A i \in 1..Len(region) : IsWordChar(Ch(region, i))
  /\ \A k \in 1..Len(RegionKeys) : ~Includes(ToLowerCase(region), RegionKeys[k])

\* C18: for a region that is a single word of 3 or more characters without a
\* curated keyword list, filterByRegion keeps exactly the posts whose
\* normalized text has that name as a whole word.
C18_FallbackMatchesName ==
  (util.fn = "filterByRegion" /\ PlainName(util.region)) =>
    util.result =
      SelectSeq2(util.posts,
                 [i \in 1..Len(util.posts) |->
                    WordBoundaryTest(normalize(util.posts[i].text),
                                     normalize(util.region))])

\* Region "Berlin": the post about Berlin is dropped and the post with the
\* word "berl" is kept.
C18_Witness ==
  /\ util.fn = "filterByRegion"
  /\ util.region = "Berlin"
  /\ util.mainRegion = "berl"
  /\ Len(util.posts) = 2
  /\ util.posts[1].text = "Berlin protests grow"
  /\ util.posts[2].text = "berl tower opens"
  /\ util.result = << [text |-> "berl tower opens"] >>

(***************************************************************************)
(* Properties of the country lookup.                                       *)
(***************************************************************************)
\* C19: the lookup does not depend on the region's case; when names of the
\* table occur in the region it returns the code of a longest one among
\* them, and "us" when none occurs.
C19_LongestKnownName ==
  util.fn = "extractCountryFromRegion" =>
    LET lower == ToLowerCase(util.region)
        known == { i \in 1..Len(countryCodeMap) : countryCodeMap[i][1] # "default" }
        occurring == { i \in known : Includes(lower, countryCodeMap[i][1]) }
    IN IF occurring = {} THEN util.result = "us"
       ELSE \E i \in occurring :
              /\ \A j \in occurring :
                   Len(countryCodeMap[j][1]) <= Len(countryCodeMap[i][1])
              /\ util.result = countryCodeMap[i][2]

\* "Vienna, Austria": the lookup answers "us", the code of the name "us"
\* that occurs inside "austria".
C19_Witness ==
  /\ util.fn = "extractCountryFromRegion"
  /\ util.region = "Vienna, Austria"
  /\ util.result = "us"

(***************************************************************************)
(* The post buffer (src/utils/blueskyFirehose.ts, class PostBuffer).       *)
(***************************************************************************)

\* BufferedPost: a post and the time addPost stored it.
BufferedPost(post, timestamp) == [cid |-> post.cid, text |-> post.text, timestamp |-> timestamp]

\* ({ timestamp, ...post }) => post
WithoutTimestamp(p) == [cid |-> p.cid, text |-> p.text]

\* A cleanup that removes nothing.
cleanupNothing(ps, t) == ps

\* cleanup (lines 87-90) at time t.
cleanup(ps, t) ==
  LET Recent(p) == t - p.timestamp < maxAge
  IN SelectSeq(ps, Recent)

\* posts.slice(-maxSize)
LastMaxSize(ps) == IF Len(ps) > maxSize THEN SubSeq(ps, Len(ps) - maxSize + 1, Len(ps)) ELSE ps

\* posts.filter(p => p.cid !== post.cid)
WithoutCid(ps, cid) ==
  LET Other(p) == p.cid # cid
  IN SelectSeq(ps, Other)

\* What posts.slice(-maxSize) cuts off.
CutOff(ps) == IF Len(ps) > maxSize THEN SubSeq(ps, 1, Len(ps) - maxSize) ELSE << >>

\* addPost (lines 50-82) at time t: the posts it leaves.
addPost(ps, post, t) == cleanup(LastMaxSize(Append(WithoutCid(ps, post.cid), BufferedPost(post, t))), t)

\* sort((a, b) => b.timestamp - a.timestamp): the sort is stable, so the
\* posts of one timestamp keep their order; computed one timestamp at a time,
\* the greatest first.
RECURSIVE NewestFirstOver(_, _)
NewestFirstOver(ps, stamps) ==
  IF stamps = {} THEN << >>
  ELSE LET newest == CHOOSE x \in stamps : \A y \in stamps : y <= x
           Stamped(p) == p.timestamp = newest
       IN SelectSeq(ps, Stamped) \o NewestFirstOver(ps, stamps \ { newest })

SortNewestFirst(ps) == NewestFirstOver(ps, { ps[i].timestamp : i \in 1..Len(ps) })

\* slice(0, limit) and the map that drops the timestamps, for limit >= 0.
Limited(ps, limit) == [i \in 1..Min(limit, Len(ps)) |-> WithoutTimestamp(ps[i])]

\* filtered.filter(post => post.text.toLowerCase().includes(queryLower));
\* an empty query is falsy and filters nothing (lines 101-106).
MatchingQuery(ps, query) ==
  LET queryLower == ToLowerCase(query)
      Matches(p) == Includes(ToLowerCase(p.text), queryLower)
  IN IF query = "" THEN ps ELSE SelectSeq(ps, Matches)

\* getPosts (lines 95-113) on the cleaned posts: a copy is filtered, sorted
\* and cut.
getPosts(cleaned, query, limit) == Limited(SortNewestFirst(MatchingQuery(cleaned, query)), limit)

\* getAllPosts (lines 118-125) on the cleaned posts: this.posts itself is
\* sorted, and the sorted array is cut.
getAllPosts(cleaned, limit) == Limited(SortNewestFirst(cleaned), limit)

\* Math.min(...this.posts.map(p => p.timestamp)), null (Absent) when empty.
OldestPost(ps) ==
  IF ps = << >> THEN Absent
  ELSE Num(CHOOSE x \in { ps[i].timestamp : i \in 1..Len(ps) } : \A i \in 1..Len(ps) : x <= ps[i].timestamp)

\* getStats (lines 130-141) on the cleaned posts.
getStats(cleaned) == [size |-> Len(cleaned), maxSize |-> maxSize, oldestPost |-> OldestPost(cleaned)]

\* The buffer after n posts arrived in the same millisecond, time 0.
Filled(n) == [i \in 1..n |-> BufferedPost([cid |-> i, text |-> ""], 0)]

\* The buffers a run starts from: the new one, and one a post short of full.
StartingPosts == { << >>, Filled(maxSize - 1) }

\* Posts the firehose delivers: one whose cid is in a filled buffer, and two
\* new ones.
IncomingPosts == { [cid |-> 1, text |-> "again"], [cid |-> 2001, text |-> "Rain at noon"], [cid |-> 2002, text |-> "sun"] }

\* Queries and limits of the readers; 50 is the default limit.
Queries == { "", "rain" }
ReadLimits == { 0, 1, 2, 50 }

InitBuffer ==
  /\ now = 0
  /\ cache = [k \in {} |-> 0]
  /\ req = [r \in Requests |-> IdleReq]
  /\ arrivals = 0
  /\ util = NoCall
  /\ sockets = << >>
  /\ timers = << >>
  /\ \E ps \in StartingPosts : postBuffer = [NewPostBuffer EXCEPT !.posts = ps]

\* The receive handler calls addPost(post).
CallAddPost(post) ==
  /\ util = NoCall
  /\ postBuffer' = [postBuffer EXCEPT !.posts = addPost(@, post, now)]
  /\ util' = [fn |-> "addPost", cid |-> post.cid, at |-> now, cutOff |-> CutOff(Append(WithoutCid(postBuffer.posts, post.cid), BufferedPost(post, now)))]
  /\ UNCHANGED << now, cache, req, arrivals, sockets, timers >>

\* getPosts(query, limit) is called: cleanup, then the read.
CallGetPosts(query, limit) ==
  /\ util = NoCall
  /\ postBuffer' = [postBuffer EXCEPT !.posts = cleanup(@, now)]
  /\ util' = [fn |-> "getPosts", query |-> query, limit |-> limit, at |-> now, result |-> getPosts(cleanup(postBuffer.posts, now), query, limit)]
  /\ UNCHANGED << now, cache, req, arrivals, sockets, timers >>

\* getAllPosts(limit) is called: cleanup, then the sort of this.posts.
CallGetAllPosts(limit) ==
  /\ util = NoCall
  /\ postBuffer' = [postBuffer EXCEPT !.posts = SortNewestFirst(cleanup(@, now))]
  /\ util' = [fn |-> "getAllPosts", limit |-> limit, at |-> now, result |-> getAllPosts(cleanup(postBuffer.posts, now), limit)]
  /\ UNCHANGED << now, cache, req, arrivals, sockets, timers >>

\* getStats() is called.
CallGetStats ==
  /\ util = NoCall
  /\ postBuffer' = [postBuffer EXCEPT !.posts = cleanup(@, now)]
  /\ util' = [fn |-> "getStats", at |-> now, result |-> getStats(cleanup(postBuffer.posts, now))]
  /\ UNCHANGED << now, cache, req, arrivals, sockets, timers >>

\* Time passes between two calls.
BufferElapse ==
  /\ util = NoCall
  /\ now < MaxBufferSteps * BufferStepMs
  /\ now' = now + BufferStepMs
  /\ UNCHANGED << cache, req, arrivals, util, sockets, timers, postBuffer >>

NextBuffer ==
  \/ \E post \in IncomingPosts : CallAddPost(post)
  \/ \E query \in Queries, limit \in ReadLimits : CallGetPosts(query, limit)
  \/ \E limit \in ReadLimits : CallGetAllPosts(limit)
  \/ CallGetStats
  \/ BufferElapse
  \/ UtilReturn

SpecBuffer == InitBuffer /\ [][NextBuffer]_vars

(***************************************************************************)
(* The firehose connection (src/utils/blueskyFirehose.ts, startFirehose).  *)
(* A WebSocket is CONNECTING when created, OPEN after its open event and   *)
(* CLOSED when its close event is emitted; the ws library emits the close  *)
(* event once per socket, after it has set readyState to CLOSED, whether   *)
(* the socket had opened or the handshake failed.                          *)
(***************************************************************************)

\* The end of the firehose's clock.
ClockEnd == MaxClockSteps * ClockStepMs

\* new WebSocket(...) at line 531 with the handlers of lines 533-668: the
\* socket remembers the callback its handlers close over; `parent` is the
\* socket whose reconnect timer created it (0: PostBuffer.start did),
\* closeCalled whether close() was called on it, and the two times are when
\* it was created and when it closed (-1: not yet).
WebSocket(onPost, parent) == [readyState |-> "CONNECTING", onPost |-> onPost, parent |-> parent, closeCalled |-> FALSE, openedAt |-> now, closedAt |-> -1]

\* The consecutive closes behind socket i: the reconnects that led to it.
RECURSIVE Generation(_)
Generation(i) == IF sockets[i].parent = 0 THEN 0 ELSE 1 + Generation(sockets[i].parent)

RECURSIVE Pow2(_)
Pow2(n) == IF n = 0 THEN 1 ELSE 2 * Pow2(n - 1)

\* The closure setTimeout receives at line 649: it closes over ws and onPost.
ReconnectTimer(i, delay) == [ws |-> i, onPost |-> sockets[i].onPost, due |-> now + delay]

\* Room for one more socket, counting the ones pending timers will create.
Room == Len(sockets) + Len(timers) < MaxSockets

\* The post a message of the firehose carries.
FirehosePost == [cid |-> 2001, text |-> "Rain at noon"]

\* PostBuffer.start (lines 146-164), which GET /api/start-firehose
\* (part_004 lines 4-38) calls when the buffer is not active: a call while
\* isRunning returns at once; otherwise startFirehose is called with a new
\* closure over addPost, named here by the socket it is first given to, and
\* the socket is kept in this.ws.
BufferStart ==
  /\ ~postBuffer.isRunning
  /\ Room
  /\ sockets' = Append(sockets, WebSocket(Len(sockets) + 1, 0))
  /\ postBuffer' = [postBuffer EXCEPT !.isRunning = TRUE, !.ws = Len(sockets) + 1]
  /\ UNCHANGED << now, cache, req, arrivals, util, timers >>

\* ws.close(): a socket that is connecting or open begins to close.
CloseCalled(socket) ==
  IF socket.readyState \in { "CONNECTING", "OPEN" }
  THEN [socket EXCEPT !.readyState = "CLOSING", !.closeCalled = TRUE]
  ELSE socket

\* PostBuffer.stop (lines 169-176): this.ws, the socket start created, is
\* closed and forgotten.
BufferStop ==
  /\ postBuffer.isRunning \/ postBuffer.ws # 0
  /\ sockets' = IF postBuffer.ws # 0 THEN [sockets EXCEPT ![postBuffer.ws] = CloseCalled(@)] ELSE sockets
  /\ postBuffer' = [postBuffer EXCEPT !.isRunning = FALSE, !.ws = 0]
  /\ UNCHANGED << now, cache, req, arrivals, util, timers >>

\* Lines 533-536: the open event.
OnOpen(i) ==
  /\ sockets[i].readyState = "CONNECTING"
  /\ sockets' = [sockets EXCEPT ![i].readyState = "OPEN"]
  /\ UNCHANGED << now, cache, req, arrivals, util, timers, postBuffer >>

\* Lines 538-644: a message with a post arrives on an open socket and the
\* socket's callback adds it to the buffer (line 157).
OnMessage(i) ==
  /\ sockets[i].readyState = "OPEN"
  /\ postBuffer' = [postBuffer EXCEPT !.posts = addPost(@, FirehosePost, now)]
  /\ UNCHANGED << now, cache, req, arrivals, util, sockets, timers >>

\* A close handler that doubles the delay with every consecutive close.
OnCloseBackoff(i) ==
  /\ sockets[i].readyState \in { "CONNECTING", "OPEN", "CLOSING" }
  /\ Room
  /\ now + RECONNECT_DELAY_MS <= ClockEnd
  /\ sockets' = [sockets EXCEPT ![i].readyState = "CLOSED", ![i].closedAt = now]
  /\ timers' = Append(timers, ReconnectTimer(i, RECONNECT_DELAY_MS * Pow2(Generation(i))))
  /\ UNCHANGED << now, cache, req, arrivals, util, postBuffer >>

\* Lines 646-655: the socket closes, of itself or after close() was called,
\* and its close handler sets one timer of RECONNECT_DELAY_MS.  A socket
\* closes only while the run has room and time for its reconnect.
OnClose(i) ==
  /\ sockets[i].readyState \in { "CONNECTING", "OPEN", "CLOSING" }
  /\ Room
  /\ now + RECONNECT_DELAY_MS <= ClockEnd
  /\ sockets' = [sockets EXCEPT ![i].readyState = "CLOSED", ![i].closedAt = now]
  /\ timers' = Append(timers, ReconnectTimer(i, RECONNECT_DELAY_MS))
  /\ UNCHANGED << now, cache, req, arrivals, util, postBuffer >>

\* The timers but the k-th.
WithoutTimer(k) == SubSeq(timers, 1, k - 1) \o SubSeq(timers, k + 1, Len(timers))

\* Lines 649-654: a due timer runs; when its socket is CLOSED (ws itself is
\* never null) it calls startFirehose(onPost).  Nothing of the buffer is
\* read: not isRunning, not this.ws.
TimerFires(k) ==
  /\ now >= timers[k].due
  /\ timers' = WithoutTimer(k)
  /\ sockets' = IF sockets[timers[k].ws].readyState = "CLOSED" THEN Append(sockets, WebSocket(timers[k].onPost, timers[k].ws)) ELSE sockets
  /\ UNCHANGED << now, cache, req, arrivals, util, postBuffer >>

\* Time passes.
Elapse ==
  /\ now < ClockEnd
  /\ now' = now + ClockStepMs
  /\ UNCHANGED << cache, req, arrivals, util, sockets, timers, postBuffer >>

SomeTimerFires == \E k \in 1..Len(timers) : TimerFires(k)

NextFirehose ==
  \/ BufferStart
  \/ BufferStop
  \/ \E i \in 1..Len(sockets) : OnOpen(i)
  \/ \E i \in 1..Len(sockets) : OnMessage(i)
  \/ \E i \in 1..Len(sockets) : OnClose(i)
  \/ SomeTimerFires
  \/ Elapse

\* The event loop runs a timer that is due, and time does not stop.
SpecFirehose == Init /\ [][NextFirehose]_vars /\ WF_vars(SomeTimerFires) /\ WF_vars(Elapse)

(***************************************************************************)
(* Properties of the firehose connection.                                  *)
(***************************************************************************)

\* Socket i has closed.
Closed(i) == i <= Len(sockets) /\ sockets[i].readyState = "CLOSED"

\* The sockets that the reconnect timer of socket i created.
Successors(i) == { j \in 1..Len(sockets) : sockets[j].parent = i }

\* The pending timers of socket i.
PendingFor(i) == { k \in 1..Len(timers) : timers[k].ws = i }

\* A closed socket has exactly one reconnect attempt, pending or made; a
\* pending one is due RECONNECT_DELAY_MS after the close whatever the number
\* of closes before it, and one made created a socket with the same callback
\* no sooner than that.
ReconnectsOnce(i) ==
  /\ Cardinality(Successors(i)) + Cardinality(PendingFor(i)) = 1
  /\ \A k \in PendingFor(i) :
       /\ timers[k].due = sockets[i].closedAt + RECONNECT_DELAY_MS
       /\ timers[k].onPost = sockets[i].onPost
  /\ \A j \in Successors(i) :
       /\ sockets[j].onPost = sockets[i].onPost
       /\ sockets[j].openedAt >= sockets[i].closedAt + RECONNECT_DELAY_MS

\* C20: after every close of a socket that startFirehose created, exactly
\* one reconnect is attempted; it is timed RECONNECT_DELAY_MS after the
\* close, however many closes came before, it opens a socket with the same
\* post callback, and it does happen.
C20_ReconnectsAfterFixedDelay ==
  /\ [](\A i \in 1..Len(sockets) : Closed(i) => ReconnectsOnce(i))
  /\ \A i \in 1..MaxSockets : Closed(i) ~> (Successors(i) # {})

\* Two closes in a row: the first socket closed and was replaced, the
\* replacement closed and was replaced in turn, each time with the callback
\* of the first call.
C20_Witness ==
  /\ Len(sockets) = 3
  /\ sockets[1].parent = 0 /\ sockets[2].parent = 1 /\ sockets[3].parent = 2
  /\ Closed(1) /\ Closed(2)
  /\ sockets[3].onPost = sockets[1].onPost

(***************************************************************************)
(* Properties of extractMainRegion applied twice.                          *)
(***************************************************************************)

\* C30: extractMainRegion applied to its own result gives that result again,
\* for every region string.
C30_Idempotent ==
  util.fn = "extractMainRegion" => util.again = util.result

\* "Berlin" is not in the keyword table: the first extraction strips "in"
\* as a state code and gives "berl", the second strips "rl" and gives "be".
C30_Witness ==
  /\ util.fn = "extractMainRegion"
  /\ util.region = "Berlin"
  /\ util.result = "berl"
  /\ util.again = "be"

(***************************************************************************)
(* Properties of the post buffer.                                          *)
(***************************************************************************)

\* The time the buffer stored the post of this cid.
StampOf(cid) ==
  LET Is(p) == p.cid = cid
  IN SelectSeq(postBuffer.posts, Is)[1].timestamp

\* The stored posts were all added less than maxAge before time t.
AllRecent(t) == \A i \in 1..Len(postBuffer.posts) : t - postBuffer.posts[i].timestamp < maxAge

\* A read's result: at most `limit` posts, each one stored, newest first.
ResultOfRead(result, limit) ==
  LET stamps == [i \in 1..Len(result) |-> StampOf(result[i].cid)]
      cids == { postBuffer.posts[i].cid : i \in 1..Len(postBuffer.posts) }
  IN /\ Len(result) <= limit
     /\ \A i \in 1..Len(result) : result[i].cid \in cids
     /\ \A i \in 1..(Len(result) - 1) : stamps[i] >= stamps[i + 1]

\* C21: after addPost the buffer holds at most maxSize posts; a read
\* (getPosts, getAllPosts, getStats) leaves and sees only posts added less
\* than maxAge before it, and getPosts and getAllPosts return at most `limit`
\* of them, newest first.
C21_BoundedAndWindowed ==
  /\ util.fn = "addPost" => Len(postBuffer.posts) <= maxSize
  /\ util.fn \in { "getPosts", "getAllPosts", "getStats" } => AllRecent(util.at)
  /\ util.fn \in { "getPosts", "getAllPosts" } => ResultOfRead(util.result, util.limit)
  /\ util.fn = "getStats" => util.result.size = Len(postBuffer.posts) /\ util.result.size <= maxSize

\* An hour after the buffer was a post short of full, with two posts added
\* since, getAllPosts(1) returns the later one alone.
C21_Witness ==
  /\ util.fn = "getAllPosts"
  /\ util.at = maxAge
  /\ util.limit = 1
  /\ Len(postBuffer.posts) = 2
  /\ util.result = << [cid |-> 2002, text |-> "sun"] >>
  /\ postBuffer.posts[1].cid = 2002 /\ postBuffer.posts[2].cid = 2001
  /\ postBuffer.posts[2].timestamp < postBuffer.posts[1].timestamp

\* C22: a call of getPosts or getAllPosts leaves the stored posts as cleanup
\* alone leaves them: the same posts in the same order.
C22_ReadsLeaveBuffer ==
  [][(util.fn = "none" /\ util'.fn \in { "getPosts", "getAllPosts" }) => postBuffer'.posts = cleanup(postBuffer.posts, now)]_vars

\* After getAllPosts the stored posts are newest first: the post added last
\* is stored first, an order addPost never leaves.
C22_Witness ==
  /\ util.fn = "getAllPosts"
  /\ Len(postBuffer.posts) = 2
  /\ postBuffer.posts[1].cid = 2002 /\ postBuffer.posts[2].cid = 2001
  /\ postBuffer.posts[1].timestamp > postBuffer.posts[2].timestamp

\* The posts of `before` that a call of addPost for `cid` at time t dropped
\* although they were recent and of another cid.
Discarded(before, after, cid, t) ==
  LET kept == { after[j].cid : j \in 1..Len(after) }
  IN { i \in 1..Len(before) : before[i].cid # cid /\ t - before[i].timestamp < maxAge /\ before[i].cid \notin kept }

\* The posts of `before` that the call kept.
Retained(before, after, cid) ==
  LET kept == { after[j].cid : j \in 1..Len(after) }
  IN { i \in 1..Len(before) : before[i].cid # cid /\ before[i].cid \in kept }

\* C25: a call of addPost keeps the post it adds, and the recent posts it
\* discards for the size were added no later than any post it keeps.
C25_DiscardsOldest ==
  [][(util.fn = "none" /\ util'.fn = "addPost") =>
       LET before == postBuffer.posts
           after == postBuffer'.posts
           dropped == Discarded(before, after, util'.cid, now)
           oldestKept == { before[i].timestamp : i \in Retained(before, after, util'.cid) }
       IN /\ \E j \in 1..Len(after) : after[j].cid = util'.cid /\ after[j].timestamp = now
          /\ \A i \in dropped : \A stamp \in oldestKept : before[i].timestamp <= stamp]_vars

\* The buffer is full and newest first after a getAllPosts; the next addPost
\* has discarded post 2001, added half an hour after the 999 posts it kept.
C25_Witness ==
  /\ util.fn = "addPost"
  /\ util.cid = 2002
  /\ util.cutOff = << [cid |-> 2001, text |-> "Rain at noon", timestamp |-> BufferStepMs] >>
  /\ Len(postBuffer.posts) = maxSize
  /\ postBuffer.posts[1].cid = 1 /\ postBuffer.posts[1].timestamp = 0
  /\ postBuffer.posts[maxSize].cid = 2002

(***************************************************************************)
(* The chat handler (src/app/api/chat/route.ts, POST).  The fields of the  *)
(* request body are JSON values: a record with the value's type.           *)
(***************************************************************************)

Undefined == [type |-> "undefined"]
Null == [type |-> "null"]
Str(s) == [type |-> "string", value |-> s]
NumberValue == [type |-> "number"]
Object == [type |-> "object"]
Array(items) == [type |-> "array", items |-> items]

\* typeof v
TypeOf(v) == IF v.type \in { "object", "array", "null" } THEN "object" ELSE v.type

\* !v, for the values above (the number is not 0).
Falsy(v) == v.type \in { "undefined", "null" } \/ v = Str("")

\* One sample post of the body.
Tweet(text) == [text |-> text, emotion |-> Str("joy")]

\* Array.isArray(topTweets) ? topTweets.slice(0, 10) : []
TweetsOf(topTweets) ==
  IF topTweets.type = "array" THEN SubSeq(topTweets.items, 1, Min(CHAT_TWEETS, Len(topTweets.items))) ELSE << >>

\* tweet.text.replace(...) at line 113 throws when text is no string.
PromptThrows(tweets) == \E i \in 1..Len(tweets) : tweets[i].text.type # "string"

\* What the handler answers and whether it called the model.
ChatAnswer(status, details, answer, modelCalls) == [status |-> status, details |-> details, answer |-> answer, modelCalls |-> modelCalls]

ChatFailure(status, details, modelCalls) == ChatAnswer(status, details, Missing, modelCalls)

\* The model's reply to the chat call: the fetch rejects, the status is not
\* ok, the body is no JSON, or it is JSON whose choices[0].message.content
\* is `content`.
ChatReply(kind, status, content) == [kind |-> kind, status |-> status, content |-> content]

\* Lines 157-189: the reply is read.  An answer that is no string has no
\* trim method, and the call throws into the catch.
ChatReplyRead(reply) ==
  IF reply.kind = "rejects" THEN ChatFailure(500, "fetch failed", 1)
  ELSE IF reply.kind = "notOk" THEN ChatFailure(reply.status, "OpenAI API error", 1)
  ELSE IF reply.kind = "noJson" THEN ChatFailure(500, "Unexpected token", 1)
  ELSE IF Falsy(reply.content) THEN ChatFailure(500, "No response from OpenAI", 1)
  ELSE IF reply.content.type # "string" THEN ChatFailure(500, "answer.trim is not a function", 1)
  ELSE ChatAnswer(200, Missing, Trim(reply.content.value), 1)

\* POST (lines 40-204).
ChatPOST(q, hasKey, reply) ==
  IF Falsy(q.question) \/ TypeOf(q.question) # "string" \/ Len(Trim(q.question.value)) = 0
  THEN ChatFailure(400, "Missing or invalid question", 0)
  ELSE IF ~hasKey THEN ChatFailure(500, "OPENAI_API_KEY is not configured", 0)
  ELSE IF Falsy(q.emotionsSummary) \/ TypeOf(q.emotionsSummary) # "object"
  THEN ChatFailure(400, "Missing or invalid emotionsSummary", 0)
  ELSE IF Falsy(q.region) \/ TypeOf(q.region) # "string"
  THEN ChatFailure(400, "Missing or invalid region", 0)
  ELSE IF PromptThrows(TweetsOf(q.topTweets))
  THEN ChatFailure(500, "Cannot read properties of undefined (reading 'replace')", 0)
  ELSE ChatReplyRead(reply)

\* The values a client may send for each field.
Questions == { Undefined, NumberValue, Str(""), Str("  "), Str("Why so calm?") }
Summaries == { Undefined, Null, Str("joy"), Array(<< >>), Object }
TenTweets == [i \in 1..CHAT_TWEETS |-> Tweet(Str("fine"))]
TweetLists == { Undefined, Str("none"), Array(<< >>), Array(<< Tweet(Str("fine")) >>), Array(<< Tweet(Undefined) >>), Array(Append(TenTweets, Tweet(Undefined))) }
ChatRegions == { Undefined, NumberValue, Str(""), Str("Paris") }
ChatBodies == [question : Questions, emotionsSummary : Summaries, topTweets : TweetLists, region : ChatRegions]

\* The replies of the model.
ChatReplies ==
  { ChatReply("rejects", 0, Undefined), ChatReply("notOk", 429, Undefined), ChatReply("noJson", 200, Undefined) }
    \cup { ChatReply("ok", 200, c) : c \in { Undefined, Null, Str(""), Str("   "), Str(" Calm. "), NumberValue } }

\* The chat route receives a request and answers it.
CallChat(q, hasKey, reply) ==
  /\ util = NoCall
  /\ util' = [fn |-> "chat", body |-> q, hasKey |-> hasKey, reply |-> reply, result |-> ChatPOST(q, hasKey, reply)]
  /\ UNCHANGED << now, cache, req, arrivals, sockets, timers, postBuffer >>

NextChat ==
  \/ \E q \in ChatBodies, hasKey \in BOOLEAN, reply \in ChatReplies : CallChat(q, hasKey, reply)
  \/ UtilReturn

SpecChat == Init /\ [][NextChat]_vars

(***************************************************************************)
(* Properties of the chat handler.                                         *)
(***************************************************************************)

\* The fields of a chat body that are missing (an empty or blank string
\* counts as missing) or of the wrong type.
BadFields(q) ==
  { f \in { "question", "emotionsSummary", "topTweets", "region" } :
      \/ f = "question" /\ (q.question.type # "string" \/ Trim(q.question.value) = "")
      \/ f = "emotionsSummary" /\ q.emotionsSummary.type # "object"
      \/ f = "topTweets" /\ q.topTweets.type # "array"
      \/ f = "region" /\ (q.region.type # "string" \/ q.region.value = "") }

\* C23: when a field of the body is missing or of the wrong type, the answer
\* is a 400 whose details name such a field, and the model was not called.
C23_ValidatesAllFour ==
  (util.fn = "chat" /\ BadFields(util.body) # {}) =>
    /\ util.result.status = 400
    /\ util.result.modelCalls = 0
    /\ \E f \in BadFields(util.body) : Includes(util.result.details, f)

\* A body without sample posts, the rest in order: the model is called and
\* its answer returned.
C23_Witness ==
  /\ util.fn = "chat"
  /\ BadFields(util.body) = { "topTweets" }
  /\ util.body.topTweets = Undefined
  /\ util.result.status = 200
  /\ util.result.modelCalls = 1

\* The content of a reply is missing, empty or blank.
BlankContent(reply) ==
  /\ reply.kind = "ok"
  /\ \/ reply.content.type \in { "undefined", "null" }
     \/ reply.content.type = "string" /\ Trim(reply.content.value) = ""

\* C24: a success answer carries a string of at least one character, and a
\* reply whose content is missing, empty or blank ends in an error.
C24_NeverEmptyAnswer ==
  util.fn = "chat" =>
    /\ util.result.status = 200 => (util.result.answer # Missing /\ Len(util.result.answer) > 0)
    /\ (util.result.modelCalls = 1 /\ BlankContent(util.reply)) => util.result.status # 200

\* The model answered three spaces: the handler answers 200 with "".
C24_Witness ==
  /\ util.fn = "chat"
  /\ util.reply.kind = "ok"
  /\ util.reply.content = Str("   ")
  /\ util.result.status = 200
  /\ util.result.answer = ""

(***************************************************************************)
(* Properties of fetchGdeltEvents with a country name.                     *)
(***************************************************************************)

\* The events of a reply that the country filter keeps.
KeptEvents(items, countryName) ==
  LET Keeps(event) == CountryFilterKeeps(event, countryName)
  IN SelectSeq(items, Keeps)

\* C26: with a country name and an article list from the upstream, the
\* result is the first `limit` events of the unfiltered list when the filter
\* keeps fewer than limit / 2 events and the list is not empty, and the first
\* `limit` events of the filtered list otherwise; never more than `limit`.
C26_FilterAbandoned ==
  (util.fn = "fetchGdeltEvents" /\ util.countryName # "" /\ util.reply.kind = "articles") =>
    LET all == util.reply.items
        kept == KeptEvents(all, util.countryName)
        abandoned == 2 * Len(kept) < util.limit /\ Len(all) >= 1
        chosen == IF abandoned THEN all ELSE kept
    IN /\ Len(util.result) <= util.limit
       /\ util.result = SubSeq(chosen, 1, Min(util.limit, Len(chosen)))

\* Limit 4, three events of which the filter keeps one: fewer than two, so
\* all three are returned.
C26_Witness ==
  /\ util.fn = "fetchGdeltEvents"
  /\ util.countryName = "France"
  /\ util.limit = 4
  /\ Len(util.reply.items) = 3
  /\ Len(KeptEvents(util.reply.items, "France")) = 1
  /\ util.result = util.reply.items

(***************************************************************************)
(* Properties of the labels across the success response.                   *)
(***************************************************************************)

\* C29: in every success response there is one feature per post, feature i
\* carries the emotion and the confidence of posts[i], and the features
\* counted by emotion give emotionsSummary.
C29_LabelsConsistent ==
  \A r \in Requests :
    req[r].resp.status = 200 =>
      LET d == req[r].resp.data
      IN /\ Len(d.geoJson) = Len(d.posts)
         /\ \A i \in 1..Len(d.geoJson) :
              /\ d.geoJson[i].emotion = d.posts[i].emotion.emotion
              /\ d.geoJson[i].confidence = d.posts[i].emotion.confidence
         /\ \A e \in DOMAIN d.emotionsSummary :
              Cardinality({ i \in 1..Len(d.geoJson) : d.geoJson[i].emotion = e }) = d.emotionsSummary[e]

\* The handler's classification of the post said fear; formatMapData asked
\* the model again and the feature of the same post says joy.
C29_Witness ==
  \E r \in Requests :
    /\ req[r].resp.status = 200
    /\ Len(req[r].resp.data.posts) = 1
    /\ Len(req[r].resp.data.geoJson) = 1
    /\ req[r].resp.data.posts[1].emotion = [emotion |-> "fear", confidence |-> 35]
    /\ req[r].resp.data.geoJson[1].emotion = "joy"
    /\ req[r].resp.data.emotionsSummary["fear"] = 1
    /\ req[r].resp.data.emotionsSummary["joy"] = 0

(***************************************************************************)
(* Properties of the buffer's start and stop.                              *)
(***************************************************************************)

\* C27: while the buffer is stopped, from one state to the next, no socket
\* is created and no post is added to the buffer.
C27_StaysStopped ==
  [][(~postBuffer.isRunning /\ ~postBuffer'.isRunning) => (Len(sockets') = Len(sockets) /\ postBuffer'.posts = postBuffer.posts)]_vars

\* start was called once; stop called close() on its socket, the socket
\* closed, and RECONNECT_DELAY_MS later its timer opened a second socket,
\* which is open and has added a post, all while the buffer is stopped.
C27_Witness ==
  /\ ~postBuffer.isRunning
  /\ postBuffer.ws = 0
  /\ Len(sockets) = 2
  /\ sockets[1].closeCalled /\ sockets[1].readyState = "CLOSED"
  /\ sockets[2].parent = 1 /\ sockets[2].readyState = "OPEN"
  /\ sockets[2].openedAt >= sockets[1].closedAt + RECONNECT_DELAY_MS
  /\ Len(postBuffer.posts) = 1
  /\ postBuffer.posts[1].timestamp >= sockets[2].openedAt

\* The sockets that are open: each one's callback adds to the buffer.
OpenSockets == { i \in 1..Len(sockets) : sockets[i].readyState = "OPEN" }

\* C28: at most one open socket feeds the buffer at any time.
C28_OneConnection == Cardinality(OpenSockets) <= 1

\* start, stop, start: the second start's socket is open, and so is the one
\* the reconnect timer of the stopped socket created.
C28_Witness ==
  /\ postBuffer.isRunning
  /\ Len(sockets) = 3
  /\ sockets[1].closeCalled /\ sockets[1].readyState = "CLOSED"
  /\ sockets[2].parent = 0 /\ postBuffer.ws = 2
  /\ sockets[3].parent = 1
  /\ OpenSockets = { 2, 3 }

====
